---------------------------- MODULE Spec2Model ----------------------------
(***************************************************************************)
(* A model of the Keelson Rust SDK (sdks/rust/src): the Envelope codec     *)
(* (envelope.rs), the key addressing scheme (keys.rs), the subject         *)
(* registry (subjects.rs) and the reflection decoder (reflection.rs).      *)
(*                                                                         *)
(* Byte strings and text strings are sequences (of byte values 0..255 and  *)
(* of one-character strings).  64-bit integers do not fit the 32-bit       *)
(* integers of TLC, so an i64/u64 is kept in sign-magnitude form with the  *)
(* magnitude a little-endian sequence of base-1000 limbs without leading   *)
(* zero limbs; an i32 is kept as a plain integer.                          *)
(***************************************************************************)
EXTENDS Integers, Sequences, FiniteSets, TLC

VARIABLES
    clock,      \* the wall clock read by SystemTime::now(), as a signed number of ns
    overflowChecks, \* TRUE: the build panics on integer overflow; FALSE: it wraps
    wire,       \* the message in flight (a byte sequence), or NoMessage
    wireOrigin, \* what produced the message in flight: enclose's arguments or "foreign"
    encResult,  \* the value returned by the last enclose call
    uncResult,  \* the value returned by the last uncover call
    keyCall,    \* the arguments of the last key construction or parse call
    keyResult,  \* what that call returned
    bundled,    \* the text of messages/subjects.yaml that include_str! compiled in
    once,       \* the lazy_static cell of SUBJECTS: "uninit", "running" or "done"
    table,      \* SUBJECTS: the registry's HashMap (a function subject -> type name)
    rwWriter,   \* the thread holding SUBJECTS' write lock, or NoThread
    rwReaders,  \* the threads holding SUBJECTS' read lock
    pc,         \* pc[t]: where thread t is in its current registry operation
    call,       \* call[t]: the operation thread t is running and its arguments
    pending,    \* pending[t]: entries of new_subjects that extend has yet to insert
    ret,        \* the call that returned in the last step, with its value, or None
    base,       \* base[t]: the table as it was when t acquired its lock
    logged,     \* the table as of the last merge that completed
    known,      \* the subjects is_subject_well_known has returned true for
    poolOnce,   \* the lazy_static cell of DESCRIPTOR_POOL: "uninit", "running", "done"
    descriptorPool, \* DESCRIPTOR_POOL: `combined`, the files added to it so far
    todo,       \* the files the initializer of DESCRIPTOR_POOL has yet to add
    poolReaders, \* the threads holding DESCRIPTOR_POOL's read lock
    rpc,        \* rpc[t]: where thread t is in its current reflection call
    rcall,      \* rcall[t]: the arguments of the reflection call t is running
    rret,       \* the reflection call that returned in the last step, or None
    located     \* the get_file_descriptor_set_from_type_name call that returned
                \* in the last step, or None

envVars == <<clock, overflowChecks, wire, wireOrigin, encResult, uncResult>>
keyVars == <<keyCall, keyResult>>
regVars == <<bundled, once, table, rwWriter, rwReaders, pc, call, pending, ret, base, logged,
            known>>
reflVars == <<poolOnce, descriptorPool, todo, poolReaders, rpc, rcall, rret, located>>
vars == <<envVars, keyVars, regVars, reflVars>>

\* Rust's Option: None, or Some(x)
None == <<>>
Some(x) == <<x>>

-----------------------------------------------------------------------------
(* Natural numbers as little-endian sequences of base-1000 limbs.          *)

Limb == 10 * 10 * 10

RECURSIVE Norm(_)
Norm(a) ==
    IF a = <<>> THEN <<>>
    ELSE IF a[Len(a)] = 0 THEN Norm(SubSeq(a, 1, Len(a) - 1))
    ELSE a

RECURSIVE CmpFrom(_, _, _)
CmpFrom(a, b, i) ==
    IF i = 0 THEN 0
    ELSE IF a[i] < b[i] THEN -1
    ELSE IF a[i] > b[i] THEN 1
    ELSE CmpFrom(a, b, i - 1)

\* -1, 0 or 1 as a < b, a = b or a > b
NatCmp(a, b) ==
    IF Len(a) < Len(b) THEN -1
    ELSE IF Len(a) > Len(b) THEN 1
    ELSE CmpFrom(a, b, Len(a))

NatLe(a, b) == NatCmp(a, b) <= 0
NatLt(a, b) == NatCmp(a, b) < 0

LimbAt(a, i) == IF i <= Len(a) THEN a[i] ELSE 0

RECURSIVE AddFrom(_, _, _, _)
AddFrom(a, b, i, carry) ==
    IF i > Len(a) /\ i > Len(b)
    THEN (IF carry = 0 THEN <<>> ELSE <<carry>>)
    ELSE LET s == LimbAt(a, i) + LimbAt(b, i) + carry
         IN  <<s % Limb>> \o AddFrom(a, b, i + 1, s \div Limb)

NatAdd(a, b) == AddFrom(a, b, 1, 0)

RECURSIVE SubFrom(_, _, _, _)
SubFrom(a, b, i, borrow) ==
    IF i > Len(a) THEN <<>>
    ELSE LET d == a[i] - LimbAt(b, i) - borrow
         IN  IF d < 0 THEN <<d + Limb>> \o SubFrom(a, b, i + 1, 1)
             ELSE <<d>> \o SubFrom(a, b, i + 1, 0)

\* a - b for a >= b
NatSub(a, b) == Norm(SubFrom(a, b, 1, 0))

RECURSIVE MulFrom(_, _, _, _)
MulFrom(a, k, i, carry) ==
    IF i > Len(a)
    THEN (IF carry = 0 THEN <<>>
          ELSE <<carry % Limb>> \o MulFrom(a, k, i, carry \div Limb))
    ELSE LET p == a[i] * k + carry
         IN  <<p % Limb>> \o MulFrom(a, k, i + 1, p \div Limb)

\* a * k for a small k (k * 1000 fits the 32-bit integers of TLC)
NatMulSmall(a, k) == Norm(MulFrom(a, k, 1, 0))

RECURSIVE DivFrom(_, _, _, _)
DivFrom(a, k, i, rem) ==
    IF i = 0 THEN [q |-> <<>>, r |-> rem]
    ELSE LET cur  == rem * Limb + a[i]
             rest == DivFrom(a, k, i - 1, cur % k)
         IN  [q |-> rest.q \o <<cur \div k>>, r |-> rest.r]

\* [q |-> a div k, r |-> a mod k] for a small k
NatDivSmall(a, k) ==
    LET d == DivFrom(a, k, Len(a), 0) IN [q |-> Norm(d.q), r |-> d.r]

\* a small natural number as limbs, and back
RECURSIVE NatOf(_)
NatOf(n) == IF n = 0 THEN <<>> ELSE <<n % Limb>> \o NatOf(n \div Limb)

RECURSIVE NatVal(_)
NatVal(a) == IF a = <<>> THEN 0 ELSE a[1] + Limb * NatVal(Tail(a))

\* a * 1000^k and a div 1000^k, a mod 1000^k
ShiftLimbs(a, k) == IF a = <<>> THEN <<>> ELSE [i \in 1..k |-> 0] \o a
HighLimbs(a, k) == IF Len(a) <= k THEN <<>> ELSE SubSeq(a, k + 1, Len(a))
LowLimbs(a, k) == Norm(IF Len(a) <= k THEN a ELSE SubSeq(a, 1, k))

Two16 == 2^16
Two31 == NatMulSmall(NatOf(2^15), Two16)
Two32 == NatMulSmall(NatOf(Two16), Two16)
Two63 == <<808, 775, 854, 36, 372, 223, 9>>
Two64 == <<616, 551, 709, 73, 744, 446, 18>>

\* a mod 2^32 and a mod 2^64
RECURSIVE NatPow16(_)
NatPow16(n) == IF n = 0 THEN <<1>> ELSE NatMulSmall(NatPow16(n - 1), Two16)

RECURSIVE ModPow16(_, _)
ModPow16(a, n) ==
    IF n = 0 THEN <<>>
    ELSE LET d == NatDivSmall(a, Two16)
         IN  NatAdd(NatOf(d.r), NatMulSmall(ModPow16(d.q, n - 1), Two16))

-----------------------------------------------------------------------------
(* Signed 64-bit integers: [neg, mag] with mag a limb sequence; zero is    *)
(* [neg |-> FALSE, mag |-> <<>>].                                          *)

Big(neg, mag) == [neg |-> neg /\ mag # <<>>, mag |-> mag]
Zero == Big(FALSE, <<>>)
I64Max == Big(FALSE, NatSub(Two63, <<1>>))
I64Min == Big(TRUE, Two63)

\* the magnitude of a plain integer (an i32), and the integer as a signed number
AbsLimbs(i) == IF i >= 0 THEN NatOf(i) ELSE NatAdd(NatOf(-(i + 1)), <<1>>)
BigOfInt(i) == Big(i < 0, AbsLimbs(i))

InI64(x) == IF x.neg THEN NatLe(x.mag, Two63) ELSE NatLt(x.mag, Two63)

\* x + y, exactly
BigAdd(x, y) ==
    IF x.neg = y.neg THEN Big(x.neg, NatAdd(x.mag, y.mag))
    ELSE IF NatLe(y.mag, x.mag) THEN Big(x.neg, NatSub(x.mag, y.mag))
    ELSE Big(y.neg, NatSub(y.mag, x.mag))

\* `x as u64`: the two's complement bit pattern of x, for any exact x
AsU64(x) ==
    LET m == ModPow16(x.mag, 4)
    IN  IF x.neg /\ m # <<>> THEN NatSub(Two64, m) ELSE m

\* `u as i64` for a u64 bit pattern u
U64AsI64(u) == IF NatLt(u, Two63) THEN Big(FALSE, u) ELSE Big(TRUE, NatSub(Two64, u))

\* x reduced to i64 as wrapping arithmetic does
WrapI64(x) == U64AsI64(AsU64(x))

\* `u as i32` for a u64 bit pattern u: the low 32 bits, as a plain integer
U64AsI32(u) ==
    LET m == ModPow16(u, 2)
    IN  IF NatLt(m, Two31)
        THEN NatVal(m)
        ELSE -NatVal(NatSub(NatSub(Two32, m), <<1>>)) - 1

\* `x as i32` for an i64 x
CastI32(x) == U64AsI32(AsU64(x))

-----------------------------------------------------------------------------
(* envelope.rs: the Timestamp conversions.  A Timestamp is                 *)
(* [seconds |-> i64, nanos |-> i32].                                       *)

\* The result of an arithmetic expression whose exact value is x: the build
\* either panics on overflow or wraps.
Arith(x, checks) ==
    IF InI64(x) THEN [panic |-> FALSE, val |-> x]
    ELSE IF checks THEN [panic |-> TRUE]
    ELSE [panic |-> FALSE, val |-> WrapI64(x)]

\* a remainder that drops the sign of the dividend (rem_euclid-like), against
\* which the round trip of negative timestamps is tested
RemSecUnsigned(n) == Big(FALSE, LowLimbs(n.mag, 3))

\* a division that rounds toward minus infinity (div_euclid-like), against
\* which the truncation toward zero is tested
DivSecFloor(n) ==
    IF n.neg /\ LowLimbs(n.mag, 3) # <<>>
    THEN Big(TRUE, NatAdd(HighLimbs(n.mag, 3), <<1>>))
    ELSE Big(n.neg, HighLimbs(n.mag, 3))

\* nanos / 1_000_000_000 and nanos % 1_000_000_000 (truncating, sign of the dividend)
DivSec(n) == Big(n.neg, HighLimbs(n.mag, 3))
RemSec(n) == Big(n.neg, LowLimbs(n.mag, 3))

nanos_to_timestamp(nanos) ==
    [seconds |-> DivSec(nanos), nanos |-> CastI32(RemSec(nanos))]

timestamp_to_nanos(ts, checks) ==
    LET prod == Arith(Big(ts.seconds.neg, ShiftLimbs(ts.seconds.mag, 3)), checks)
    IN  IF prod.panic THEN prod
        ELSE Arith(BigAdd(prod.val, BigOfInt(ts.nanos)), checks)

\* SystemTime::now().duration_since(UNIX_EPOCH) fails when the clock is
\* before the epoch.
BeforeEpoch(now) == now.neg

current_timestamp(now) ==
    IF BeforeEpoch(now) THEN [err |-> "InvalidTimestamp"]
    ELSE [err |-> "none",
          ts  |-> [seconds |-> U64AsI64(HighLimbs(now.mag, 3)),
                   nanos   |-> NatVal(LowLimbs(now.mag, 3))]]


-----------------------------------------------------------------------------
(* The protobuf wire format of Envelope, as prost encodes and decodes it:  *)
(*   message Envelope  { Timestamp enclosed_at = 1; bytes payload = 2; }   *)
(*   message Timestamp { int64 seconds = 1; int32 nanos = 2; }             *)
(* An Envelope is [enclosed_at |-> Option of Timestamp, payload |-> bytes].*)

Fail == [ok |-> FALSE]

\* the base-128 varint of a u64
RECURSIVE EncodeVarint(_)
EncodeVarint(u) ==
    LET d == NatDivSmall(u, 128)
    IN  IF d.q = <<>> THEN <<d.r>> ELSE <<128 + d.r>> \o EncodeVarint(d.q)

EncodeKey(tag, wt) == EncodeVarint(NatOf(tag * 8 + wt))

EncodeTimestamp(ts) ==
    (IF ts.seconds # Zero THEN EncodeKey(1, 0) \o EncodeVarint(AsU64(ts.seconds))
     ELSE <<>>)
    \o (IF ts.nanos # 0 THEN EncodeKey(2, 0) \o EncodeVarint(AsU64(BigOfInt(ts.nanos)))
        ELSE <<>>)

EncodeEnvelope(env) ==
    (IF env.enclosed_at # None
     THEN LET body == EncodeTimestamp(env.enclosed_at[1])
          IN  EncodeKey(1, 2) \o EncodeVarint(NatOf(Len(body))) \o body
     ELSE <<>>)
    \o (IF env.payload # <<>>
        THEN EncodeKey(2, 2) \o EncodeVarint(NatOf(Len(env.payload))) \o env.payload
        ELSE <<>>)

\* `r?`: the rest of the function runs on an Ok, an Err is returned at once
Try(r, Rest(_)) == IF r.ok THEN Rest(r) ELSE Fail

\* `let x = ...;` followed by the rest of the function
Let(x, Rest(_)) == Rest(x)

\* decode_varint: at most 10 bytes, the tenth below 2
RECURSIVE VarintFrom(_, _)
VarintFrom(buf, count) ==
    IF count = 10 \/ buf = <<>> THEN Fail
    ELSE IF buf[1] < 128
    THEN (IF count = 9 /\ buf[1] >= 2 THEN Fail
          ELSE [ok |-> TRUE, val |-> NatOf(buf[1]), rest |-> Tail(buf)])
    ELSE Try(VarintFrom(Tail(buf), count + 1), LAMBDA r :
             [ok |-> TRUE, rest |-> r.rest,
              val |-> NatAdd(NatOf(buf[1] - 128), NatMulSmall(r.val, 128))])

DecodeVarint(buf) == VarintFrom(buf, 0)

\* decode_key: the key fits a u32, the wire type is 0..5, the tag is not 0
DecodeKey(buf) ==
    Try(DecodeVarint(buf), LAMBDA v :
        IF ~NatLt(v.val, Two32) THEN Fail
        ELSE Let(NatDivSmall(v.val, 8), LAMBDA d :
                 IF d.r > 5 \/ d.q = <<>> THEN Fail
                 ELSE [ok |-> TRUE, tag |-> NatVal(d.q), wt |-> d.r,
                       rest |-> v.rest]))

\* buf.advance(len) after the check `len > buf.remaining()`
Advance(buf, len) ==
    IF NatLt(NatOf(Len(buf)), len) THEN Fail
    ELSE [ok |-> TRUE, rest |-> SubSeq(buf, NatVal(len) + 1, Len(buf))]

RECURSIVE SkipField(_, _, _)
RECURSIVE SkipGroup(_, _)
SkipField(wt, tag, buf) ==
    CASE wt = 0 -> Try(DecodeVarint(buf), LAMBDA v : [ok |-> TRUE, rest |-> v.rest])
      [] wt = 1 -> Advance(buf, NatOf(8))
      [] wt = 2 -> Try(DecodeVarint(buf), LAMBDA v : Advance(v.rest, v.val))
      [] wt = 3 -> SkipGroup(tag, buf)
      [] wt = 4 -> Fail
      [] wt = 5 -> Advance(buf, NatOf(4))

SkipGroup(tag, buf) ==
    Try(DecodeKey(buf), LAMBDA k :
        IF k.wt = 4
        THEN (IF k.tag = tag THEN [ok |-> TRUE, rest |-> k.rest] ELSE Fail)
        ELSE Try(SkipField(k.wt, k.tag, k.rest), LAMBDA sk : SkipGroup(tag, sk.rest)))

\* Timestamp::merge_field
TimestampField(ts, tag, wt, buf) ==
    IF tag \in {1, 2}
    THEN IF wt # 0 THEN Fail
         ELSE Try(DecodeVarint(buf), LAMBDA v :
                  [ok |-> TRUE, rest |-> v.rest,
                   msg |-> IF tag = 1
                           THEN [ts EXCEPT !.seconds = U64AsI64(v.val)]
                           ELSE [ts EXCEPT !.nanos = U64AsI32(v.val)]])
    ELSE Try(SkipField(wt, tag, buf), LAMBDA sk :
             [ok |-> TRUE, rest |-> sk.rest, msg |-> ts])

\* merge_loop's body for a nested Timestamp: fields are read while more than
\* `limit` bytes remain, and exactly `limit` must remain at the end
RECURSIVE TimestampLoop(_, _, _)
TimestampLoop(ts, buf, limit) ==
    IF Len(buf) < limit THEN Fail
    ELSE IF Len(buf) = limit THEN [ok |-> TRUE, rest |-> buf, msg |-> ts]
    ELSE Try(DecodeKey(buf), LAMBDA k :
             Try(TimestampField(ts, k.tag, k.wt, k.rest), LAMBDA f :
                 TimestampLoop(f.msg, f.rest, limit)))

DefaultTimestamp == [seconds |-> Zero, nanos |-> 0]
DefaultEnvelope == [enclosed_at |-> None, payload |-> <<>>]

\* the Timestamp a nested message is merged into: Option::get_or_insert_with
GetOrDefault(enclosed_at) ==
    IF enclosed_at = None THEN DefaultTimestamp ELSE enclosed_at[1]

\* Envelope::merge_field
EnvelopeField(env, tag, wt, buf) ==
    IF tag \in {1, 2}
    THEN IF wt # 2 THEN Fail
         ELSE Try(DecodeVarint(buf), LAMBDA len :
                  IF NatLt(NatOf(Len(len.rest)), len.val) THEN Fail
                  ELSE IF tag = 2
                  THEN [ok |-> TRUE,
                        rest |-> SubSeq(len.rest, NatVal(len.val) + 1, Len(len.rest)),
                        msg |-> [env EXCEPT !.payload =
                                    SubSeq(len.rest, 1, NatVal(len.val))]]
                  ELSE Try(TimestampLoop(GetOrDefault(env.enclosed_at), len.rest,
                                         Len(len.rest) - NatVal(len.val)),
                           LAMBDA m :
                               [ok |-> TRUE, rest |-> m.rest,
                                msg |-> [env EXCEPT !.enclosed_at = Some(m.msg)]]))
    ELSE Try(SkipField(wt, tag, buf), LAMBDA sk :
             [ok |-> TRUE, rest |-> sk.rest, msg |-> env])

RECURSIVE EnvelopeLoop(_, _)
EnvelopeLoop(env, buf) ==
    IF buf = <<>> THEN [ok |-> TRUE, msg |-> env]
    ELSE Try(DecodeKey(buf), LAMBDA k :
             Try(EnvelopeField(env, k.tag, k.wt, k.rest), LAMBDA f :
                 EnvelopeLoop(f.msg, f.rest)))

\* Envelope::decode
DecodeEnvelope(message) == EnvelopeLoop(DefaultEnvelope, message)

-----------------------------------------------------------------------------
(* envelope.rs: enclose and uncover.  `now` is what SystemTime::now()      *)
(* returns during the call.                                                *)

enclose(payload, enclosed_at, now) ==
    Let(IF enclosed_at # None
        THEN [err |-> "none", ts |-> nanos_to_timestamp(enclosed_at[1])]
        ELSE current_timestamp(now),
        LAMBDA timestamp :
            IF timestamp.err # "none" THEN [kind |-> timestamp.err]
            ELSE [kind |-> "Ok",
                  buf  |-> EncodeEnvelope([enclosed_at |-> Some(timestamp.ts),
                                           payload |-> payload])])

\* an uncover that reads the clock before it decodes the message, against
\* which the precedence of the decode error is tested
uncover_clock_first(message, now, checks) ==
    IF BeforeEpoch(now) THEN [kind |-> "InvalidTimestamp"]
    ELSE Let(DecodeEnvelope(message), LAMBDA envelope :
             IF ~envelope.ok THEN [kind |-> "ProtobufDecodeError"]
             ELSE IF envelope.msg.enclosed_at = None
             THEN [kind |-> "InvalidTimestamp"]
             ELSE Let(timestamp_to_nanos(envelope.msg.enclosed_at[1], checks),
                      LAMBDA n :
                          IF n.panic THEN [kind |-> "Panic"]
                          ELSE [kind |-> "Ok",
                                received_at |-> WrapI64(Big(FALSE, now.mag)),
                                enclosed_at |-> n.val,
                                payload |-> envelope.msg.payload]))

uncover(message, now, checks) ==
    Let(DecodeEnvelope(message), LAMBDA envelope :
        IF ~envelope.ok THEN [kind |-> "ProtobufDecodeError"]
        ELSE IF BeforeEpoch(now) THEN [kind |-> "InvalidTimestamp"]
        ELSE IF envelope.msg.enclosed_at = None
        THEN [kind |-> "InvalidTimestamp"]
        ELSE Let(timestamp_to_nanos(envelope.msg.enclosed_at[1], checks), LAMBDA n :
                 IF n.panic THEN [kind |-> "Panic"]
                 ELSE [kind |-> "Ok",
                       received_at |-> WrapI64(Big(FALSE, now.mag)),
                       enclosed_at |-> n.val,
                       payload |-> envelope.msg.payload]))


\* brefv's enclose: an Envelope with the payload only, enclosed_at left unset
brefv_enclose(payload) ==
    EncodeEnvelope([DefaultEnvelope EXCEPT !.payload = payload])

-----------------------------------------------------------------------------
(* The inputs of the envelope operations.                                  *)

MaxPayloadLen == 2
MaxWireLen == 3

RECURSIVE SeqsUpTo(_, _)
SeqsUpTo(S, n) ==
    IF n = 0 THEN {<<>>}
    ELSE LET shorter == SeqsUpTo(S, n - 1)
         IN  shorter \cup {Append(q, x) : q \in {r \in shorter : Len(r) = n - 1}, x \in S}

\* payload bytes, among them bytes that read as field keys and lengths
PayloadBytes == {18, 200}
Payloads == SeqsUpTo(PayloadBytes, MaxPayloadLen)

\* 1234567890_123456789, the timestamp of test_enclose_with_timestamp
TestNanos == <<789, 456, 123, 890, 567, 234, 1>>

TimestampMags ==
    {<<>>, <<1>>, <<999, 999, 999>>, <<0, 0, 0, 1>>, <<1, 0, 0, 1>>,
     <<0, 0, 0, 148, 147, 2>>, TestNanos, I64Max.mag}
Timestamps == {Big(neg, m) : neg \in BOOLEAN, m \in TimestampMags} \cup {I64Min}

\* the wall clock in nanoseconds since the epoch: before the epoch, at it,
\* after it, and at the last nanosecond an i64 holds and the one after it
\* (SystemTime counts seconds in 64 bits and reaches both)
ClockValues ==
    {Big(TRUE, <<1>>), Zero, Big(FALSE, TestNanos), I64Max, Big(FALSE, Two63)}

\* bytes of messages that did not come from enclose: keys of fields 1, 2 and 3
\* with several wire types, lengths, and a continuation byte
ForeignBytes == {0, 1, 8, 10, 16, 18, 24, 128}
ForeignMessages == SeqsUpTo(ForeignBytes, MaxWireLen)

\* envelopes of a peer that is not this crate: any int64 seconds and int32
\* nanos, among them the largest seconds whose nanoseconds an i64 holds
\* (9_223_372_036) and the next
PeerSeconds ==
    {Zero, Big(TRUE, <<1>>), Big(FALSE, <<36, 372, 223, 9>>),
     Big(FALSE, <<37, 372, 223, 9>>), I64Max, I64Min}
PeerNanos == {0, 999999999, -1, 2147483647}
PeerMessages ==
    {EncodeEnvelope([enclosed_at |-> Some([seconds |-> sec, nanos |-> n]),
                     payload |-> <<>>]) : sec \in PeerSeconds, n \in PeerNanos}

-----------------------------------------------------------------------------
(* The envelope operations as a state machine: a producer encloses a       *)
(* payload and puts the bytes in flight, a consumer uncovers them.         *)

EnvInit ==
    /\ clock \in ClockValues
    /\ overflowChecks \in BOOLEAN
    /\ wire = None
    /\ wireOrigin = None
    /\ encResult = None
    /\ uncResult = None

\* the system clock is set or advances between two calls
Tick(now) ==
    /\ uncResult = None
    /\ clock' = now
    /\ UNCHANGED <<overflowChecks, wire, wireOrigin, encResult, uncResult>>
    /\ UNCHANGED <<keyVars, regVars, reflVars>>

\* a call enclose(payload, enclosed_at); its bytes are published.  The origin
\* of the bytes keeps the clock enclose read, when it read it.
Enclose(payload, enclosed_at) ==
    LET r == enclose(payload, enclosed_at, clock)
    IN  /\ wire = None
        /\ uncResult = None
        /\ encResult' = Some(r)
        /\ uncResult' = None
        /\ IF r.kind = "Ok"
           THEN /\ wire' = Some(r.buf)
                /\ wireOrigin' = Some([by |-> "enclose", payload |-> payload,
                                       enclosed_at |-> enclosed_at,
                                       now |-> IF enclosed_at = None
                                               THEN Some(clock) ELSE None])
           ELSE UNCHANGED <<wire, wireOrigin>>
        /\ UNCHANGED <<clock, overflowChecks, keyVars, regVars, reflVars>>

\* a peer built on brefv publishes an envelope
BrefvEnclose(payload) ==
    /\ wire = None
    /\ uncResult = None
    /\ wire' = Some(brefv_enclose(payload))
    /\ wireOrigin' = Some([by |-> "brefv", payload |-> payload,
                           enclosed_at |-> None, now |-> None])
    /\ encResult' = None
    /\ uncResult' = None
    /\ UNCHANGED <<clock, overflowChecks, keyVars, regVars, reflVars>>

\* arbitrary bytes arrive from the transport
Receive(message) ==
    /\ wire = None
    /\ uncResult = None
    /\ wire' = Some(message)
    /\ wireOrigin' = Some([by |-> "foreign", payload |-> <<>>,
                           enclosed_at |-> None, now |-> None])
    /\ encResult' = None
    /\ uncResult' = None
    /\ UNCHANGED <<clock, overflowChecks, keyVars, regVars, reflVars>>

\* a call uncover(message) on the message in flight
Uncover ==
    /\ wire # None
    /\ uncResult' = Some([res |-> uncover(wire[1], clock, overflowChecks),
                          message |-> wire[1], origin |-> wireOrigin[1],
                          now |-> clock])
    /\ wire' = None
    /\ wireOrigin' = None
    /\ UNCHANGED <<clock, overflowChecks, encResult, keyVars, regVars, reflVars>>

\* the consumer has used the result of uncover; the next message may be sent
EnvReturn ==
    /\ uncResult # None
    /\ uncResult' = None
    /\ encResult' = None
    /\ UNCHANGED <<clock, overflowChecks, wire, wireOrigin, keyVars, regVars, reflVars>>

\* the inputs of a call are drawn only where the call can start
EnvNext ==
    \/ \E now \in ClockValues : Tick(now)
    \/ wire = None /\ \E payload \in Payloads, t \in Timestamps :
                          Enclose(payload, Some(t))
    \/ wire = None /\ \E payload \in Payloads : Enclose(payload, None)
    \/ wire = None /\ \E payload \in Payloads : BrefvEnclose(payload)
    \/ wire = None /\ \E message \in ForeignMessages \cup PeerMessages :
                          Receive(message)
    \/ Uncover
    \/ EnvReturn


-----------------------------------------------------------------------------
(* keys.rs.  A string is a sequence of one-character strings.              *)

Slash == "/"
PBasePath == <<"{", "b", "a", "s", "e", "_", "p", "a", "t", "h", "}">>
PEntityId == <<"{", "e", "n", "t", "i", "t", "y", "_", "i", "d", "}">>
PSubject == <<"{", "s", "u", "b", "j", "e", "c", "t", "}">>
PSourceId == <<"{", "s", "o", "u", "r", "c", "e", "_", "i", "d", "}">>
PProcedure == <<"{", "p", "r", "o", "c", "e", "d", "u", "r", "e", "}">>
PResponderId == <<"{", "r", "e", "s", "p", "o", "n", "d", "e", "r", "_", "i", "d", "}">>
VersionToken == <<"@", "v", "0">>
PubsubToken == <<"p", "u", "b", "s", "u", "b">>
RpcToken == <<"@", "r", "p", "c">>
TargetToken == <<"@", "t", "a", "r", "g", "e", "t">>

\* "{base_path}/@v0/{entity_id}/pubsub/{subject}/{source_id}"
KEELSON_PUB_SUB_KEY_FORMAT ==
    PBasePath \o <<Slash>> \o VersionToken \o <<Slash>> \o PEntityId \o <<Slash>>
    \o PubsubToken \o <<Slash>> \o PSubject \o <<Slash>> \o PSourceId

\* "{base_path}/@v0/{entity_id}/@rpc/{procedure}/{responder_id}"
KEELSON_REQ_REP_KEY_FORMAT ==
    PBasePath \o <<Slash>> \o VersionToken \o <<Slash>> \o PEntityId \o <<Slash>>
    \o RpcToken \o <<Slash>> \o PProcedure \o <<Slash>> \o PResponderId

\* str::replace: every non-overlapping match of `from`, left to right
RECURSIVE ReplaceIn(_, _, _)
ReplaceIn(s, from, to) ==
    IF Len(s) < Len(from) THEN s
    ELSE IF SubSeq(s, 1, Len(from)) = from
    THEN to \o ReplaceIn(SubSeq(s, Len(from) + 1, Len(s)), from, to)
    ELSE <<s[1]>> \o ReplaceIn(Tail(s), from, to)

\* the receiver is a value: a chained replace works on the String the previous
\* replace returned
Replace(s, from, to) == CHOOSE r \in {ReplaceIn(v, from, to) : v \in {s}} : TRUE

\* str::split('/') collected: the parts between the slashes, at least one
RECURSIVE SplitFrom(_, _)
SplitFrom(s, cur) ==
    IF s = <<>> THEN <<cur>>
    ELSE IF s[1] = Slash THEN <<cur>> \o SplitFrom(Tail(s), <<>>)
    ELSE SplitFrom(Tail(s), Append(cur, s[1]))

Split(s) == SplitFrom(s, <<>>)

\* a join that forgets the separator, against which the rejoined source_id
\* is tested
RECURSIVE JoinNoSeparator(_)
JoinNoSeparator(parts) ==
    IF parts = <<>> THEN <<>> ELSE parts[1] \o JoinNoSeparator(Tail(parts))

\* [&str]::join("/")
RECURSIVE Join(_)
Join(parts) ==
    IF parts = <<>> THEN <<>>
    ELSE IF Len(parts) = 1 THEN parts[1]
    ELSE parts[1] \o <<Slash>> \o Join(Tail(parts))

\* a construction that appends the target to the template before the
\* substitutions, against which the target suffix is tested
PubsubKeyTargetFirst(base_path, entity_id, subject, source_id, target_id) ==
    Replace(Replace(Replace(Replace(
        IF target_id # None
        THEN KEELSON_PUB_SUB_KEY_FORMAT \o <<Slash>> \o TargetToken \o <<Slash>>
             \o target_id[1]
        ELSE KEELSON_PUB_SUB_KEY_FORMAT,
        PBasePath, base_path), PEntityId, entity_id),
        PSubject, subject), PSourceId, source_id)

\* the key construct_pubsub_key returns; target_id is an Option
PubsubKey(base_path, entity_id, subject, source_id, target_id) ==
    LET key == Replace(Replace(Replace(Replace(KEELSON_PUB_SUB_KEY_FORMAT,
                   PBasePath, base_path), PEntityId, entity_id),
                   PSubject, subject), PSourceId, source_id)
    IN  IF target_id # None
        THEN key \o <<Slash>> \o TargetToken \o <<Slash>> \o target_id[1]
        ELSE key

\* a construction that refuses a subject that is not well known, against
\* which the advisory nature of the check is tested
construct_pubsub_key_strict(base_path, entity_id, subject, source_id, target_id, subjects) ==
    IF subject \in DOMAIN subjects
    THEN [key    |-> PubsubKey(base_path, entity_id, subject, source_id, target_id),
          warned |-> FALSE]
    ELSE [key |-> <<>>, warned |-> TRUE]

\* construct_pubsub_key with the registry table it consults: the key, and
\* whether the "NOT well-known" warning was logged
construct_pubsub_key(base_path, entity_id, subject, source_id, target_id, subjects) ==
    [key    |-> PubsubKey(base_path, entity_id, subject, source_id, target_id),
     warned |-> subject \notin DOMAIN subjects]

construct_rpc_key(base_path, entity_id, procedure, responder_id) ==
    Replace(Replace(Replace(Replace(KEELSON_REQ_REP_KEY_FORMAT,
        PBasePath, base_path), PEntityId, entity_id),
        PProcedure, procedure), PResponderId, responder_id)

\* Error::KeyParseError(format!(...)): the message's text and what it inserts
\* an error that leaves the key out of its message, against which the naming
\* of the offending key is tested
KeyParseErrorWithoutKey(text, key, format) ==
    [ok |-> FALSE, kind |-> "KeyParseError", text |-> text, key |-> <<>>,
     format |-> format]

KeyParseError(text, key, format) ==
    [ok |-> FALSE, kind |-> "KeyParseError", text |-> text, key |-> key,
     format |-> format]

TooFewParts == "does not have enough parts (expected at least 6)"
FormatMismatch == "does not match expected format"

\* a parser that keeps one segment as the source_id, against which the
\* rejoining of the remaining segments is tested
parse_pubsub_key_one_segment(key) ==
    LET parts == Split(key)
    IN  IF Len(parts) < 6 THEN KeyParseError(TooFewParts, key, None)
        ELSE IF parts[2] # VersionToken \/ parts[4] # PubsubToken
        THEN KeyParseError(FormatMismatch, key, Some(KEELSON_PUB_SUB_KEY_FORMAT))
        ELSE [ok |-> TRUE,
              map |-> [base_path |-> parts[1], entity_id |-> parts[3],
                       subject |-> parts[5], source_id |-> parts[6]]]

\* a parser that counts the segments and checks no token, against which the
\* rejection of foreign keys is tested
parse_rpc_key_unchecked(key) ==
    LET parts == Split(key)
    IN  IF Len(parts) < 6 THEN KeyParseError(TooFewParts, key, None)
        ELSE [ok |-> TRUE,
              map |-> [base_path |-> parts[1], entity_id |-> parts[3],
                       procedure |-> parts[5],
                       responder_id |-> Join(SubSeq(parts, 6, Len(parts)))]]

\* the Ok value is the HashMap, a function from the component's name
parse_pubsub_key(key) ==
    LET parts == Split(key)
    IN  IF Len(parts) < 6 THEN KeyParseError(TooFewParts, key, None)
        ELSE IF parts[2] # VersionToken \/ parts[4] # PubsubToken
        THEN KeyParseError(FormatMismatch, key, Some(KEELSON_PUB_SUB_KEY_FORMAT))
        ELSE [ok |-> TRUE,
              map |-> [base_path |-> parts[1],
                       entity_id |-> parts[3],
                       subject   |-> parts[5],
                       source_id |-> Join(SubSeq(parts, 6, Len(parts)))]]

parse_rpc_key(key) ==
    LET parts == Split(key)
    IN  IF Len(parts) < 6 THEN KeyParseError(TooFewParts, key, None)
        ELSE IF parts[2] # VersionToken \/ parts[4] # RpcToken
        THEN KeyParseError(FormatMismatch, key, Some(KEELSON_REQ_REP_KEY_FORMAT))
        ELSE [ok |-> TRUE,
              map |-> [base_path    |-> parts[1],
                       entity_id    |-> parts[3],
                       procedure    |-> parts[5],
                       responder_id |-> Join(SubSeq(parts, 6, Len(parts)))]]

get_subject_from_pubsub_key(key) ==
    LET parsed == parse_pubsub_key(key)
    IN  IF ~parsed.ok THEN parsed
        ELSE IF "subject" \notin DOMAIN parsed.map
        THEN KeyParseError("Missing subject in parsed key", None, None)
        ELSE [ok |-> TRUE, subject |-> parsed.map["subject"]]

\* lib.rs, the crate root, has parsers of its own that return an Option: a
\* tuple of the four components, or None
lib_parse_pubsub_key(key) ==
    LET parts == Split(key)
    IN  IF Len(parts) < 6 THEN None
        ELSE Some(<<parts[1], parts[3], parts[5], Join(SubSeq(parts, 6, Len(parts)))>>)

lib_parse_rpc_key(key) ==
    LET parts == Split(key)
    IN  IF Len(parts) < 6 THEN None
        ELSE Some(<<parts[1], parts[3], parts[5], Join(SubSeq(parts, 6, Len(parts)))>>)

\* parse_pubsub_key(key).map(|(_, _, subject, _)| subject)
lib_get_subject_from_pubsub_key(key) ==
    LET parsed == lib_parse_pubsub_key(key)
    IN  IF parsed = None THEN None ELSE Some(parsed[1][3])

-----------------------------------------------------------------------------
(* subjects.rs.  A subjects YAML text is a sequence of lines, each either  *)
(* an entry "subject: type name" or a line that is no entry of a flat      *)
(* string-to-string mapping; the entries of one text have distinct         *)
(* subjects.  The registry table is a function from subjects to type names.*)

Entry(subject, type_name) == [ok |-> TRUE, key |-> subject, val |-> type_name]
BadLine == [ok |-> FALSE]

EmptyMap == [k \in {} |-> k]

\* an insert that keeps the value of a key already present (entry().or_insert),
\* against which the overriding of a load is tested
InsertIfAbsent(map, k, v) ==
    [x \in DOMAIN map \cup {k} |-> IF x \in DOMAIN map THEN map[x] ELSE v]

\* HashMap::insert
Insert(map, k, v) == [x \in DOMAIN map \cup {k} |-> IF x = k THEN v ELSE map[x]]

\* a line-by-line parser that skips the lines it cannot read, against which
\* the rejection of a malformed file is tested
load_subjects_skipping_bad_lines(yaml_content) ==
    LET good == {i \in 1..Len(yaml_content) : yaml_content[i].ok}
    IN  [ok |-> TRUE,
         map |-> [k \in {yaml_content[i].key : i \in good} |->
                    LET i == CHOOSE i \in good : yaml_content[i].key = k
                    IN  yaml_content[i].val]]

\* serde_yaml::from_str::<HashMap<String, String>>: the whole text or an error
load_subjects_from_str(yaml_content) ==
    IF \E i \in 1..Len(yaml_content) : ~yaml_content[i].ok
    THEN [ok |-> FALSE, kind |-> "YamlError"]
    ELSE [ok |-> TRUE,
          map |-> [k \in {yaml_content[i].key : i \in 1..Len(yaml_content)} |->
                     LET i == CHOOSE i \in 1..Len(yaml_content) : yaml_content[i].key = k
                     IN  yaml_content[i].val]]

load_bundled_subjects(yaml_content) == load_subjects_from_str(yaml_content)

\* an initializer that loads nothing, against which the presence of the
\* bundled entries is tested
InitialSubjectsNone(yaml_content) == EmptyMap

\* the initializer of SUBJECTS: load_bundled_subjects().unwrap_or_default()
InitialSubjects(yaml_content) ==
    LET r == load_bundled_subjects(yaml_content)
    IN  IF r.ok THEN r.map ELSE EmptyMap

Raw == <<"r", "a", "w">>
LeverPositionPct ==
    <<"l", "e", "v", "e", "r", "_", "p", "o", "s", "i", "t", "i", "o", "n", "_",
      "p", "c", "t">>
SubjectX == <<"x">>
SubjectY == <<"y">>

\* the part of the bundled subjects.yaml that the crate's tests read
BundledYaml ==
    <<Entry(Raw, "keelson.TimestampedBytes"),
      Entry(LeverPositionPct, "keelson.TimestampedFloat")>>

\* the files load_subjects is called on: two overlays, a text whose last
\* line is malformed, and a path that cannot be read
Files ==
    [overlay1 |-> [readable |-> TRUE,
                   content |-> <<Entry(Raw, "custom.Bytes"),
                                 Entry(SubjectX, "custom.X")>>],
     overlay2 |-> [readable |-> TRUE,
                   content |-> <<Entry(SubjectX, "other.X"),
                                 Entry(SubjectY, "other.Y")>>],
     broken   |-> [readable |-> TRUE,
                   content |-> <<Entry(SubjectY, "broken.Y"),
                                 Entry(Raw, "broken.Bytes"), BadLine>>],
     missing  |-> [readable |-> FALSE, content |-> <<>>]]
Paths == DOMAIN Files

\* std::fs::read_to_string
read_to_string(path) ==
    IF Files[path].readable THEN [ok |-> TRUE, content |-> Files[path].content]
    ELSE [ok |-> FALSE, kind |-> "IoError"]

\* the table a dereference of SUBJECTS yields when no other thread is running
Forced(cell, map, yaml_content) ==
    IF cell = "done" THEN map ELSE InitialSubjects(yaml_content)

-----------------------------------------------------------------------------
(* The key operations as a state machine: each step is one call.           *)

Components ==
    {<<>>, <<"a">>, Raw, <<"a", "/", "b">>, PSourceId, <<"a", "/">> \o RpcToken}
RpcComponents ==
    {<<>>, <<"a">>, <<"a", "/", "b">>, PResponderId, <<"a", "/">> \o PubsubToken}
Targets == {None, Some(<<"t">>), Some(PBasePath)}

MaxSegs == 6
SegmentVocab == {<<>>, <<"a">>, VersionToken, PubsubToken, RpcToken}
FreeSegments == SeqsUpTo(SegmentVocab, MaxSegs) \ {<<>>}

Parsers == {"parse_pubsub_key", "parse_rpc_key", "get_subject_from_pubsub_key"}
RunParser(parser, key) ==
    CASE parser = "parse_pubsub_key" -> parse_pubsub_key(key)
      [] parser = "parse_rpc_key" -> parse_rpc_key(key)
      [] parser = "get_subject_from_pubsub_key" -> get_subject_from_pubsub_key(key)

KeyInit ==
    /\ keyCall = None
    /\ keyResult = None

ConstructPubsub(base_path, entity_id, subject, source_id, target_id) ==
    LET subjects == Forced(once, table, bundled)
    IN  /\ keyCall = None
        /\ keyCall' = Some([op |-> "construct_pubsub_key", base_path |-> base_path,
                            entity_id |-> entity_id, third |-> subject,
                            fourth |-> source_id, target_id |-> target_id,
                            registry |-> subjects])
        /\ keyResult' = Some(construct_pubsub_key(base_path, entity_id, subject,
                                                  source_id, target_id, subjects))
        /\ once' = "done"
        /\ table' = subjects
        /\ UNCHANGED <<bundled, rwWriter, rwReaders, pc, call, pending, ret, base,
                       logged, known, envVars, reflVars>>

ConstructRpc(base_path, entity_id, procedure, responder_id) ==
    /\ keyCall = None
    /\ keyCall' = Some([op |-> "construct_rpc_key", base_path |-> base_path,
                        entity_id |-> entity_id, third |-> procedure,
                        fourth |-> responder_id, target_id |-> None])
    /\ keyResult' = Some([key |-> construct_rpc_key(base_path, entity_id, procedure,
                                                    responder_id)])
    /\ UNCHANGED <<envVars, regVars, reflVars>>

\* a parser is called on the key the previous call constructed
ParseBuilt(parser) ==
    /\ keyCall # None
    /\ keyCall[1].op \in {"construct_pubsub_key", "construct_rpc_key"}
    /\ keyCall' = Some([op |-> parser, key |-> keyResult[1].key, built |-> keyCall,
                        segs |-> None])
    /\ keyResult' = Some(RunParser(parser, keyResult[1].key))
    /\ UNCHANGED <<envVars, regVars, reflVars>>

\* a parser is called on a key received from elsewhere, made of the segments segs
ParseFree(parser, segs) ==
    /\ keyCall = None
    /\ keyCall' = Some([op |-> parser, key |-> Join(segs), built |-> None,
                        segs |-> Some(segs)])
    /\ keyResult' = Some(RunParser(parser, Join(segs)))
    /\ UNCHANGED <<envVars, regVars, reflVars>>

\* the caller has used the result; the next call may start
KeyReturn ==
    /\ keyCall # None
    /\ keyCall' = None
    /\ keyResult' = None
    /\ UNCHANGED <<envVars, regVars, reflVars>>

\* the parsers of the crate root
LibParsers ==
    {"lib::parse_pubsub_key", "lib::parse_rpc_key", "lib::get_subject_from_pubsub_key"}

RunLibParser(parser, key) ==
    CASE parser = "lib::parse_pubsub_key" -> lib_parse_pubsub_key(key)
      [] parser = "lib::parse_rpc_key" -> lib_parse_rpc_key(key)
      [] parser = "lib::get_subject_from_pubsub_key" ->
             lib_get_subject_from_pubsub_key(key)

\* a parser of the crate root is called on a key made of the segments segs
LibParse(parser, segs) ==
    /\ keyCall = None
    /\ keyCall' = Some([op |-> parser, key |-> Join(segs), built |-> None,
                        segs |-> Some(segs)])
    /\ keyResult' = Some(RunLibParser(parser, Join(segs)))
    /\ UNCHANGED <<envVars, regVars, reflVars>>

LibNext ==
    \/ keyCall = None /\ \E parser \in LibParsers, segs \in FreeSegments :
                             LibParse(parser, segs)
    \/ KeyReturn

\* the inputs of a call are drawn only where the call can start
KeyNext ==
    \/ keyCall = None /\ \E a \in Components, b \in Components, c \in Components,
                             d \in Components, t \in Targets :
                             ConstructPubsub(a, b, c, d, t)
    \/ keyCall = None /\ \E a \in RpcComponents, b \in RpcComponents,
                             c \in RpcComponents, d \in RpcComponents :
                             ConstructRpc(a, b, c, d)
    \/ \E parser \in Parsers : ParseBuilt(parser)
    \/ keyCall = None /\ \E parser \in Parsers, segs \in FreeSegments :
                             ParseFree(parser, segs)
    \/ KeyReturn



-----------------------------------------------------------------------------
(* The registry as a state machine: threads call the registry's functions. *)
(* A call dereferences SUBJECTS (lazy_static: the first thread runs the    *)
(* initializer, the others wait for it), takes the RwLock, acts on the     *)
(* table and drops the guard.  HashMap::extend inserts the entries of      *)
(* new_subjects one at a time, in the order the map iterates them.         *)

NumThreads == 2
Threads == 1..NumThreads
ReadSubjects == {Raw, SubjectX}

IsLoad(c) == c.op = "load_subjects"

\* a lock whose read() never waits, against which the exclusion of reads and
\* merges is tested
CanReadAlways(writer, readers) == TRUE

\* a lock whose write() never waits, against which the order of the merges is
\* tested
CanWriteAlways(writer, readers) == TRUE

\* RwLock: write() is granted when nobody holds the lock, read() when no
\* writer holds it
CanWrite(writer, readers) == writer = None /\ readers = {}
CanRead(writer, readers) == writer = None

\* a schema lookup that answers with a default type for a subject the table
\* does not have, against which the agreement of the reads is tested
get_subject_schema_or_default(subjects, subject) ==
    Some(IF subject \in DOMAIN subjects THEN subjects[subject] ELSE "keelson.Any")

\* what each read computes from the table under its guard
is_subject_well_known(subjects, subject) == subject \in DOMAIN subjects
get_subject_schema(subjects, subject) ==
    IF subject \in DOMAIN subjects THEN Some(subjects[subject]) ELSE None
get_all_subjects(subjects) == subjects

ReadValue(c, subjects) ==
    CASE c.op = "is_subject_well_known" -> is_subject_well_known(subjects, c.subject)
      [] c.op = "get_subject_schema" -> get_subject_schema(subjects, c.subject)
      [] c.op = "get_all_subjects" -> get_all_subjects(subjects)
      [] c.op = "construct_pubsub_key" ->
             construct_pubsub_key(c.base_path, c.entity_id, c.subject, c.source_id,
                                  c.target_id, subjects)

\* the bundled text is the repository's subjects.yaml, or one that serde_yaml
\* rejects
RegInit ==
    /\ bundled \in {BundledYaml, Append(BundledYaml, BadLine)}
    /\ once = "uninit"
    /\ table = EmptyMap
    /\ rwWriter = None
    /\ rwReaders = {}
    /\ pc = [t \in Threads |-> "idle"]
    /\ call = [t \in Threads |-> None]
    /\ pending = [t \in Threads |-> EmptyMap]
    /\ ret = None
    /\ base = [t \in Threads |-> None]
    /\ logged = EmptyMap
    /\ known = {}

\* thread t calls is_subject_well_known, get_subject_schema or get_all_subjects
CallRead(t, op, subject) ==
    /\ pc[t] = "idle"
    /\ call' = [call EXCEPT ![t] =
                   Some([op |-> op, subject |-> subject])]
    /\ ret' = None
    /\ pc' = [pc EXCEPT ![t] = "deref"]
    /\ UNCHANGED <<bundled, once, table, rwWriter, rwReaders, pending, base, logged,
                   known,
                   envVars, keyVars, reflVars>>

\* thread t calls construct_pubsub_key, which starts with
\* is_subject_well_known(subject); what follows the read is local to the thread
CallConstruct(t, base_path, entity_id, subject, source_id, target_id) ==
    /\ pc[t] = "idle"
    /\ call' = [call EXCEPT ![t] =
                   Some([op |-> "construct_pubsub_key", base_path |-> base_path,
                         entity_id |-> entity_id, subject |-> subject,
                         source_id |-> source_id, target_id |-> target_id])]
    /\ ret' = None
    /\ pc' = [pc EXCEPT ![t] = "deref"]
    /\ UNCHANGED <<bundled, once, table, rwWriter, rwReaders, pending, base, logged,
                   known, envVars, keyVars, reflVars>>

\* thread t calls load_subjects(path): the file is read and parsed before
\* SUBJECTS is touched, and either failure returns at once
CallLoad(t, path) ==
    LET content == read_to_string(path)
        new_subjects == load_subjects_from_str(content.content)
        c == [op |-> "load_subjects", path |-> path]
    IN  /\ pc[t] = "idle"
        /\ IF ~content.ok
           THEN /\ ret' = Some([thread |-> t, call |-> c, ok |-> FALSE,
                                kind |-> content.kind, before |-> table])
                /\ UNCHANGED <<pc, call, pending>>
           ELSE IF ~new_subjects.ok
           THEN /\ ret' = Some([thread |-> t, call |-> c, ok |-> FALSE,
                                kind |-> new_subjects.kind, before |-> table])
                /\ UNCHANGED <<pc, call, pending>>
           ELSE /\ ret' = None
                /\ call' = [call EXCEPT ![t] = Some(c)]
                /\ pending' = [pending EXCEPT ![t] = new_subjects.map]
                /\ pc' = [pc EXCEPT ![t] = "deref"]
        /\ UNCHANGED <<bundled, once, table, rwWriter, rwReaders, base, logged, known,
                       envVars, keyVars, reflVars>>

\* the dereference of SUBJECTS: the first thread to arrive runs the initializer
Deref(t) ==
    /\ pc[t] = "deref"
    /\ once # "running"
    /\ IF once = "uninit"
       THEN /\ once' = "running"
            /\ pc' = [pc EXCEPT ![t] = "init"]
       ELSE /\ pc' = [pc EXCEPT ![t] = "lock"]
            /\ UNCHANGED once
    /\ UNCHANGED <<bundled, table, rwWriter, rwReaders, call, pending, base,
                   logged, known,
                   envVars, keyVars, reflVars>>
    /\ ret' = None

\* the initializer finishes: RwLock::new(load_bundled_subjects().unwrap_or_default())
Initialize(t) ==
    /\ pc[t] = "init"
    /\ table' = InitialSubjects(bundled)
    /\ logged' = table'
    /\ once' = "done"
    /\ pc' = [pc EXCEPT ![t] = "lock"]
    /\ UNCHANGED <<bundled, rwWriter, rwReaders, call, pending, base, known,
                   envVars, keyVars, reflVars>>
    /\ ret' = None

\* SUBJECTS.write() or SUBJECTS.read() returns its guard
Acquire(t) ==
    /\ pc[t] = "lock"
    /\ IF IsLoad(call[t][1])
       THEN /\ CanWrite(rwWriter, rwReaders)
            /\ rwWriter' = Some(t)
            /\ UNCHANGED rwReaders
       ELSE /\ CanRead(rwWriter, rwReaders)
            /\ rwReaders' = rwReaders \cup {t}
            /\ UNCHANGED rwWriter
    /\ base' = [base EXCEPT ![t] = Some(table)]
    /\ pc' = [pc EXCEPT ![t] = "locked"]
    /\ UNCHANGED <<bundled, once, table, call, pending, logged, known,
                   envVars, keyVars, reflVars>>
    /\ ret' = None

\* a read computes its value from the table and drops the read guard
Read(t) ==
    LET c == call[t][1]
        val == ReadValue(c, table)
    IN  /\ pc[t] = "locked"
        /\ ~IsLoad(c)
        /\ ret' = Some([thread |-> t, call |-> c, ok |-> TRUE, val |-> val,
                        was_known |-> c.subject \in known])
        /\ known' = IF c.op = "is_subject_well_known" /\ val
                    THEN known \cup {c.subject} ELSE known
        /\ rwReaders' = rwReaders \ {t}
        /\ call' = [call EXCEPT ![t] = None]
        /\ base' = [base EXCEPT ![t] = None]
        /\ pc' = [pc EXCEPT ![t] = "idle"]
        /\ UNCHANGED <<bundled, once, table, rwWriter, pending, logged,
                   envVars, keyVars, reflVars>>

\* subjects.extend(new_subjects) inserts its next entry
Extend(t, k) ==
    /\ pc[t] = "locked"
    /\ IsLoad(call[t][1])
    /\ k \in DOMAIN pending[t]
    /\ table' = Insert(table, k, pending[t][k])
    /\ pending' = [pending EXCEPT ![t] =
                      [x \in DOMAIN pending[t] \ {k} |-> pending[t][x]]]
    /\ UNCHANGED <<bundled, once, rwWriter, rwReaders, pc, call, base, logged,
                   known,
                   envVars, keyVars, reflVars>>
    /\ ret' = None

\* a load_subjects that returns without dropping its write guard, against
\* which the release of the lock is tested
FinishLoadKeepsGuard(t) ==
    /\ pc[t] = "locked"
    /\ IsLoad(call[t][1])
    /\ DOMAIN pending[t] = {}
    /\ logged' = table
    /\ ret' = Some([thread |-> t, call |-> call[t][1], ok |-> TRUE, kind |-> "none",
                    before |-> base[t][1]])
    /\ call' = [call EXCEPT ![t] = None]
    /\ base' = [base EXCEPT ![t] = None]
    /\ pc' = [pc EXCEPT ![t] = "idle"]
    /\ UNCHANGED <<bundled, once, table, rwWriter, rwReaders, pending, known,
                   envVars, keyVars, reflVars>>

\* extend is done: load_subjects drops the write guard and returns Ok(())
FinishLoad(t) ==
    /\ pc[t] = "locked"
    /\ IsLoad(call[t][1])
    /\ DOMAIN pending[t] = {}
    /\ rwWriter' = None
    /\ logged' = table
    /\ ret' = Some([thread |-> t, call |-> call[t][1], ok |-> TRUE, kind |-> "none",
                    before |-> base[t][1]])
    /\ call' = [call EXCEPT ![t] = None]
    /\ base' = [base EXCEPT ![t] = None]
    /\ pc' = [pc EXCEPT ![t] = "idle"]
    /\ UNCHANGED <<bundled, once, table, rwReaders, pending, known,
                   envVars, keyVars, reflVars>>

RegNext ==
    \/ \E t \in Threads, subject \in ReadSubjects :
          \E op \in {"is_subject_well_known", "get_subject_schema"} :
             CallRead(t, op, subject)
    \/ \E t \in Threads : CallRead(t, "get_all_subjects", <<>>)
    \/ \E t \in Threads, path \in Paths : CallLoad(t, path)
    \/ \E t \in Threads : Deref(t)
    \/ \E t \in Threads : Initialize(t)
    \/ \E t \in Threads : Acquire(t)
    \/ \E t \in Threads : Read(t)
    \/ \E t \in Threads : \E k \in DOMAIN pending[t] : Extend(t, k)
    \/ \E t \in Threads : FinishLoad(t)

-----------------------------------------------------------------------------
(* reflection.rs.  A type name is a string.  A message descriptor is       *)
(* [full_name |-> type name, fields |-> number -> kind], a kind being a    *)
(* scalar type or the full name of a message type; a file descriptor is    *)
(* [name, dependency, message_type], and a DescriptorPool the sequence of  *)
(* the files added to it.                                                  *)

\* payloads_descriptor.bin: the files build.rs compiles from messages/payloads,
\* with the file they import
PAYLOADS_DESCRIPTOR ==
    << [name |-> "google/protobuf/timestamp.proto", dependency |-> {},
        message_type |-> {[full_name |-> "google.protobuf.Timestamp",
                           fields |-> (1 :> "int64") @@ (2 :> "int32")]}],
       [name |-> "Primitives.proto",
        dependency |-> {"google/protobuf/timestamp.proto"},
        message_type |-> {[full_name |-> "keelson.TimestampedFloat",
                           fields |-> (1 :> "google.protobuf.Timestamp")
                                      @@ (2 :> "float")]}],
       [name |-> "foxglove/Color.proto", dependency |-> {},
        message_type |-> {[full_name |-> "foxglove.Color",
                           fields |-> [i \in 1..4 |-> "double"]]}] >>

\* interfaces_descriptor.bin: the files build.rs compiles from interfaces
INTERFACES_DESCRIPTOR ==
    << [name |-> "Configurable.proto", dependency |-> {},
        message_type |-> {[full_name |-> "ConfigurableSuccessResponse",
                           fields |-> <<>>]}] >>

\* a lookup that knows only the first file of the pool, against which the
\* resolution of every type of the merged pool is tested
get_message_by_name_first_file(pool, name) ==
    LET found == {m \in (IF pool = <<>> THEN {} ELSE pool[1].message_type) :
                     m.full_name = name}
    IN  IF found = {} THEN None ELSE Some(CHOOSE m \in found : TRUE)

\* pool.get_message_by_name(name): the message with that full name, if any
get_message_by_name(pool, name) ==
    LET found == {m \in UNION {pool[i].message_type : i \in DOMAIN pool} :
                     m.full_name = name}
    IN  IF found = {} THEN None ELSE Some(CHOOSE m \in found : TRUE)

\* combined.add_file_descriptor_proto(file): a file already in the pool is
\* left as it is; a file whose import is missing, or that defines a name the
\* pool already has, is an error
add_file_descriptor_proto(pool, file) ==
    LET names == {pool[i].name : i \in DOMAIN pool}
    IN  IF \E i \in DOMAIN pool : pool[i] = file THEN [ok |-> TRUE, pool |-> pool]
        ELSE IF \/ file.name \in names
                \/ ~(file.dependency \subseteq names)
                \/ \E m \in file.message_type :
                      get_message_by_name(pool, m.full_name) # None
        THEN Fail
        ELSE [ok |-> TRUE, pool |-> Append(pool, file)]

\* the wire type a field of that kind is encoded with
WireType(kind) ==
    CASE kind \in {"int64", "int32"} -> 0
      [] kind = "double" -> 1
      [] kind = "float" -> 5
      [] OTHER -> 2

\* DynamicMessage's merge: a field of the descriptor must come with its wire
\* type, and a message field is merged with the descriptor of its type; a
\* field the descriptor does not have is kept as an unknown field
RECURSIVE DynamicField(_, _, _)
RECURSIVE DynamicLoop(_, _, _, _)
DynamicField(pool, desc, k) ==
    IF k.tag \notin DOMAIN desc.fields THEN SkipField(k.wt, k.tag, k.rest)
    ELSE IF k.wt # WireType(desc.fields[k.tag]) THEN Fail
    ELSE IF k.wt # 2 THEN SkipField(k.wt, k.tag, k.rest)
    ELSE Try(DecodeVarint(k.rest), LAMBDA len :
             IF NatLt(NatOf(Len(len.rest)), len.val) THEN Fail
             ELSE DynamicLoop(pool,
                              get_message_by_name(pool, desc.fields[k.tag])[1],
                              len.rest, Len(len.rest) - NatVal(len.val)))

DynamicLoop(pool, desc, buf, limit) ==
    IF Len(buf) < limit THEN Fail
    ELSE IF Len(buf) = limit THEN [ok |-> TRUE, rest |-> buf]
    ELSE Try(DecodeKey(buf), LAMBDA k :
             Try(DynamicField(pool, desc, k), LAMBDA f :
                 DynamicLoop(pool, desc, f.rest, limit)))

\* get_message_descriptor_from_type_name, on the pool behind the read guard
\* (the lock is never poisoned: nothing takes its write guard)
get_message_descriptor_from_type_name(pool, type_name) ==
    LET found == get_message_by_name(pool, type_name)
    IN  IF found = None
        THEN [ok |-> FALSE, kind |-> "ReflectionError",
              message |-> <<"Unknown message type: ", type_name>>]
        ELSE [ok |-> TRUE, kind |-> "MessageDescriptor", descriptor |-> found[1]]

\* a decode that looks at the payload before it resolves the type, against
\* which the precedence of the unknown-type error is tested
decode_payload_first(pool, payload, type_name) ==
    IF ~DecodeKey(payload).ok /\ payload # <<>>
    THEN [ok |-> FALSE, kind |-> "ProtobufDecodeError"]
    ELSE get_message_descriptor_from_type_name(pool, type_name)

decode_payload_from_type_name(pool, payload, type_name) ==
    LET descriptor == get_message_descriptor_from_type_name(pool, type_name)
    IN  IF ~descriptor.ok THEN descriptor
        ELSE IF DynamicLoop(pool, descriptor.descriptor, payload, 0).ok
        THEN [ok |-> TRUE, kind |-> "DynamicMessage",
              descriptor |-> descriptor.descriptor]
        ELSE [ok |-> FALSE, kind |-> "ProtobufDecodeError"]

\* DescriptorPool::decode(bytes): a pool of the files of the set, added in the
\* order of the set
RECURSIVE AddFiles(_, _)
AddFiles(pool, files) ==
    IF files = <<>> THEN [ok |-> TRUE, pool |-> pool]
    ELSE Try(add_file_descriptor_proto(pool, Head(files)), LAMBDA added :
             AddFiles(added.pool, Tail(files)))

DescriptorPoolDecode(set) == AddFiles(<<>>, set)

\* a lookup that tries the interfaces set before the payloads set, against
\* which the precedence of the payloads set is tested
get_file_descriptor_set_interfaces_first(payloads, interfaces, type_name) ==
    IF get_message_by_name(interfaces, type_name) # None
    THEN [ok |-> TRUE, set |-> "interfaces"]
    ELSE IF get_message_by_name(payloads, type_name) # None
    THEN [ok |-> TRUE, set |-> "payloads"]
    ELSE [ok |-> FALSE, kind |-> "ReflectionError",
          message |-> <<"Type '", type_name, "' not found in any descriptor set">>]

\* get_file_descriptor_set_from_type_name, the two include_bytes! constants
\* being its first two arguments
get_file_descriptor_set_from_type_name(payloads, interfaces, type_name) ==
    LET payloads_pool == DescriptorPoolDecode(payloads)
        interfaces_pool == DescriptorPoolDecode(interfaces)
    IN  IF ~payloads_pool.ok
        THEN [ok |-> FALSE, kind |-> "ReflectionError",
              message |-> <<"Failed to decode payloads descriptor: ">>]
        ELSE IF get_message_by_name(payloads_pool.pool, type_name) # None
        THEN [ok |-> TRUE, set |-> "payloads"]
        ELSE IF ~interfaces_pool.ok
        THEN [ok |-> FALSE, kind |-> "ReflectionError",
              message |-> <<"Failed to decode interfaces descriptor: ">>]
        ELSE IF get_message_by_name(interfaces_pool.pool, type_name) # None
        THEN [ok |-> TRUE, set |-> "interfaces"]
        ELSE [ok |-> FALSE, kind |-> "ReflectionError",
              message |-> <<"Type '", type_name,
                            "' not found in any descriptor set">>]

-----------------------------------------------------------------------------
(* The reflection functions as a state machine: threads call them, and the *)
(* first dereference of DESCRIPTOR_POOL runs its initializer, which merges *)
(* the two descriptor sets file by file into `combined`.                   *)

\* type names of the payloads set, of the interfaces set, and of neither
TypeNames ==
    {"keelson.TimestampedFloat", "foxglove.Color", "ConfigurableSuccessResponse",
     "unknown.Type"}

\* interfaces_descriptor.bin holds the interface files and every file they
\* import: a build whose interfaces import nothing, and a build in which one
\* imports google/protobuf/timestamp.proto, a file of the payloads set too
InterfacesBuilds ==
    {INTERFACES_DESCRIPTOR, <<PAYLOADS_DESCRIPTOR[1]>> \o INTERFACES_DESCRIPTOR}

\* the names get_file_descriptor_set_from_type_name is asked for
LocateNames == TypeNames \cup {"google.protobuf.Timestamp"}

\* payloads: an empty message, a Timestamp {seconds: 1} in field 1, and a
\* varint cut short
ReflPayloads == {<<>>, <<10, 2, 8, 1>>, <<128>>}

\* a cell that lets a thread through while its initializer still runs,
\* against which the completeness of the pool a caller sees is tested
PoolReadyEarly(cell) == cell # "uninit"

\* lazy_static's Once: a dereference returns when the initializer has finished
PoolReady(cell) == cell = "done"

ReflInit ==
    /\ poolOnce = "uninit"
    /\ descriptorPool = <<>>
    /\ todo = <<>>
    /\ poolReaders = {}
    /\ rpc = [t \in Threads |-> "idle"]
    /\ rcall = [t \in Threads |-> None]
    /\ rret = None
    /\ located = None

\* thread t calls get_message_descriptor_from_type_name(type_name) (payload
\* None) or decode_payload_from_type_name(payload, type_name)
ReflCall(t, payload, type_name) ==
    /\ rpc[t] = "idle"
    /\ rcall' = [rcall EXCEPT ![t] = Some([payload |-> payload,
                                           type_name |-> type_name])]
    /\ rpc' = [rpc EXCEPT ![t] = "deref"]
    /\ rret' = None
    /\ located' = None
    /\ UNCHANGED <<poolOnce, descriptorPool, todo, poolReaders, envVars, keyVars, regVars>>

\* the dereference of DESCRIPTOR_POOL: the first thread to arrive starts the
\* initializer (both sets are decoded, `combined` is a new descriptorPool), the others
\* wait until it has finished
PoolDeref(t) ==
    /\ rpc[t] = "deref"
    /\ IF poolOnce = "uninit"
       THEN /\ poolOnce' = "running"
            /\ descriptorPool' = <<>>
            /\ todo' = PAYLOADS_DESCRIPTOR \o INTERFACES_DESCRIPTOR
            /\ rpc' = [rpc EXCEPT ![t] = "init"]
       ELSE /\ PoolReady(poolOnce)
            /\ rpc' = [rpc EXCEPT ![t] = "lock"]
            /\ UNCHANGED <<poolOnce, descriptorPool, todo>>
    /\ rret' = None
    /\ located' = None
    /\ UNCHANGED <<poolReaders, rcall, envVars, keyVars, regVars>>

\* the initializer adds the next file to `combined`; .expect panics on an error
AddFile(t) ==
    LET added == add_file_descriptor_proto(descriptorPool, Head(todo))
    IN  /\ rpc[t] = "init"
        /\ todo # <<>>
        /\ IF added.ok
           THEN /\ descriptorPool' = added.pool
                /\ todo' = Tail(todo)
                /\ UNCHANGED <<poolOnce, rpc>>
           ELSE /\ poolOnce' = "poisoned"
                /\ rpc' = [rpc EXCEPT ![t] = "panicked"]
                /\ UNCHANGED <<descriptorPool, todo>>
        /\ rret' = None
        /\ located' = None
        /\ UNCHANGED <<poolReaders, rcall, envVars, keyVars, regVars>>

\* the initializer finishes: RwLock::new(combined)
Publish(t) ==
    /\ rpc[t] = "init"
    /\ todo = <<>>
    /\ poolOnce' = "done"
    /\ rpc' = [rpc EXCEPT ![t] = "lock"]
    /\ rret' = None
    /\ located' = None
    /\ UNCHANGED <<descriptorPool, todo, poolReaders, rcall, envVars, keyVars, regVars>>

\* DESCRIPTOR_POOL.read() returns its guard
PoolAcquire(t) ==
    /\ rpc[t] = "lock"
    /\ CanRead(None, poolReaders)
    /\ poolReaders' = poolReaders \cup {t}
    /\ rpc' = [rpc EXCEPT ![t] = "locked"]
    /\ rret' = None
    /\ located' = None
    /\ UNCHANGED <<poolOnce, descriptorPool, todo, rcall, envVars, keyVars, regVars>>

\* the lookup under the read guard; the guard drops when
\* get_message_descriptor_from_type_name returns, and a decode then works on
\* the descriptor and the payload alone
Lookup(t) ==
    LET c == rcall[t][1]
    IN  /\ rpc[t] = "locked"
        /\ rret' = Some([thread |-> t, call |-> c, seen |-> descriptorPool,
                         res |-> IF c.payload = None
                                 THEN get_message_descriptor_from_type_name(
                                          descriptorPool, c.type_name)
                                 ELSE decode_payload_from_type_name(
                                          descriptorPool, c.payload[1], c.type_name)])
        /\ poolReaders' = poolReaders \ {t}
        /\ located' = None
        /\ rcall' = [rcall EXCEPT ![t] = None]
        /\ rpc' = [rpc EXCEPT ![t] = "idle"]
        /\ UNCHANGED <<poolOnce, descriptorPool, todo, envVars, keyVars, regVars>>

\* get_file_descriptor_set_from_type_name(type_name), in a build whose
\* interfaces_descriptor.bin is `interfaces`: the call decodes the two
\* constants itself and touches neither DESCRIPTOR_POOL nor its lock, so it is
\* one step, taken between the calls of the other functions
Locate(interfaces, type_name) ==
    /\ \A t \in Threads : rpc[t] = "idle"
    /\ located' = Some([interfaces |-> interfaces, type_name |-> type_name,
                        res |-> get_file_descriptor_set_from_type_name(
                                    PAYLOADS_DESCRIPTOR, interfaces, type_name)])
    /\ rret' = None
    /\ UNCHANGED <<poolOnce, descriptorPool, todo, poolReaders, rpc, rcall,
                   envVars, keyVars, regVars>>

ReflNext ==
    \/ \E t \in Threads, type_name \in TypeNames : ReflCall(t, None, type_name)
    \/ \E t \in Threads, type_name \in TypeNames, payload \in ReflPayloads :
          ReflCall(t, Some(payload), type_name)
    \/ \E t \in Threads : PoolDeref(t)
    \/ \E t \in Threads : AddFile(t)
    \/ \E t \in Threads : Publish(t)
    \/ \E t \in Threads : PoolAcquire(t)
    \/ \E t \in Threads : Lookup(t)
    \/ \E interfaces \in InterfacesBuilds, type_name \in LocateNames :
          Locate(interfaces, type_name)

-----------------------------------------------------------------------------
(* The registry and the reflection module together: every thread makes     *)
(* calls of both, one call at a time.                                      *)

\* thread t starts a call
Calls(t) ==
    \/ \E op \in {"is_subject_well_known", "get_subject_schema"} :
          CallRead(t, op, Raw)
    \/ CallRead(t, "get_all_subjects", <<>>)
    \/ CallConstruct(t, <<"a">>, <<"a">>, SubjectX, <<"a">>, None)
    \/ \E path \in {"overlay1", "broken"} : CallLoad(t, path)
    \/ \E type_name \in {"foxglove.Color", "unknown.Type"} :
          ReflCall(t, None, type_name)

\* thread t goes on with the call it is in, the acquisition of SUBJECTS' lock
\* apart
Step(t) ==
    \/ Deref(t)
    \/ Initialize(t)
    \/ Read(t)
    \/ \E k \in DOMAIN pending[t] : Extend(t, k)
    \/ FinishLoad(t)
    \/ PoolDeref(t)
    \/ AddFile(t)
    \/ Publish(t)
    \/ PoolAcquire(t)
    \/ Lookup(t)

\* a thread is in no call
Idle(t) == pc[t] = "idle" /\ rpc[t] = "idle"

ConcNext ==
    \/ \E t \in Threads : Idle(t) /\ Calls(t)
    \/ \E t \in Threads : Step(t)
    \/ \E t \in Threads : Acquire(t)

-----------------------------------------------------------------------------
(* The specifications: one per component, the other components at rest.    *)

EnvIdle ==
    /\ clock = Zero
    /\ overflowChecks = TRUE
    /\ wire = None
    /\ wireOrigin = None
    /\ encResult = None
    /\ uncResult = None

EnvelopeInit == EnvInit /\ KeyInit /\ RegInit /\ ReflInit /\ bundled = BundledYaml
SpecEnvelope == EnvelopeInit /\ [][EnvNext]_vars

KeysInit == EnvIdle /\ KeyInit /\ RegInit /\ ReflInit /\ bundled = BundledYaml
SpecKeys == KeysInit /\ [][KeyNext]_vars

RegistryInit == EnvIdle /\ KeyInit /\ RegInit /\ ReflInit /\ bundled = BundledYaml
SpecRegistry == RegistryInit /\ [][RegNext]_vars

\* the registry of a build whose bundled subjects.yaml does not parse
BrokenBundleInit == EnvIdle /\ KeyInit /\ RegInit /\ ReflInit /\ bundled # BundledYaml
SpecBrokenBundle == BrokenBundleInit /\ [][RegNext]_vars

\* the parsers of lib.rs, on their own
CrateRootInit == EnvIdle /\ KeyInit /\ RegInit /\ ReflInit /\ bundled = BundledYaml
SpecCrateRoot == CrateRootInit /\ [][LibNext]_vars

\* the threads' calls of both modules; in the fair specification a thread that
\* can take a step of its call takes it, and a lock that is free again and
\* again is granted to the thread that waits for it
ConcInit == EnvIdle /\ KeyInit /\ RegInit /\ ReflInit /\ bundled = BundledYaml
SpecConcurrent == ConcInit /\ [][ConcNext]_vars
Fairness == \A t \in Threads : WF_vars(Step(t)) /\ SF_vars(Acquire(t))
SpecConcurrentFair == SpecConcurrent /\ Fairness

ReflectionInit == EnvIdle /\ KeyInit /\ RegInit /\ ReflInit /\ bundled = BundledYaml
SpecReflection == ReflectionInit /\ [][ReflNext]_vars



-----------------------------------------------------------------------------
(* Properties of the envelope operations, checked under SpecEnvelope.      *)

\* the last uncover was given the bytes enclose made from an explicit timestamp
UncoveredOwn ==
    /\ uncResult # None
    /\ uncResult[1].origin.by = "enclose"
    /\ uncResult[1].origin.enclosed_at # None

\* the last uncover returned the payload and the timestamp that were enclosed
RoundTripExact ==
    /\ uncResult[1].res.kind = "Ok"
    /\ uncResult[1].res.enclosed_at = uncResult[1].origin.enclosed_at[1]
    /\ uncResult[1].res.payload = uncResult[1].origin.payload

\* C1 as the specification states it: for every payload p and every i64
\* timestamp t, uncover(enclose(p, Some(t))) succeeds and returns enclosed_at = t
\* and payload = p, whatever else holds.
C1_RoundTripAlways == UncoveredOwn => RoundTripExact

\* C1, amended: uncover(enclose(p, Some(t))) returns enclosed_at = t and
\* payload = p for every p and every i64 t, the extremes included and with or
\* without overflow checks, whenever the clock uncover reads is not before
\* the Unix epoch; when it is, uncover returns InvalidTimestamp.
C1_RoundTripAfterEpoch ==
    UncoveredOwn =>
        IF BeforeEpoch(uncResult[1].now)
        THEN uncResult[1].res.kind = "InvalidTimestamp"
        ELSE RoundTripExact

\* the smallest i64 came back unchanged with a payload of two bytes
C1_ExtremeRoundTrip ==
    /\ UncoveredOwn
    /\ uncResult[1].origin.enclosed_at[1] = I64Min
    /\ Len(uncResult[1].origin.payload) = 2
    /\ RoundTripExact

\* C8: uncover returns InvalidTimestamp for a well-formed Envelope whose
\* enclosed_at is absent (such as brefv's enclose produces), and a protobuf
\* decode error for bytes that are not a well-formed Envelope; the decode
\* check comes first, so malformed bytes give the decode error whatever the
\* clock reads.
C8_AbsentTimestampRejected ==
    uncResult # None =>
        /\ (~DecodeEnvelope(uncResult[1].message).ok)
              => (uncResult[1].res.kind = "ProtobufDecodeError")
        /\ (/\ DecodeEnvelope(uncResult[1].message).ok
            /\ DecodeEnvelope(uncResult[1].message).msg.enclosed_at = None)
              => (uncResult[1].res.kind = "InvalidTimestamp")
        /\ (uncResult[1].origin.by = "brefv")
              => (/\ DecodeEnvelope(uncResult[1].message).ok
                  /\ DecodeEnvelope(uncResult[1].message).msg.payload
                        = uncResult[1].origin.payload
                  /\ uncResult[1].res.kind = "InvalidTimestamp")

\* an envelope of brefv with a payload was refused while the clock was sound
C8_BrefvEnvelopeRefused ==
    /\ uncResult # None
    /\ uncResult[1].origin.by = "brefv"
    /\ uncResult[1].origin.payload # <<>>
    /\ ~BeforeEpoch(uncResult[1].now)
    /\ uncResult[1].res.kind = "InvalidTimestamp"

-----------------------------------------------------------------------------
(* Properties of the key operations, checked under SpecKeys.               *)

Contains(s, sub) ==
    \E i \in 1..(Len(s) - Len(sub) + 1) : SubSeq(s, i, i + Len(sub) - 1) = sub

Placeholders == {PBasePath, PEntityId, PSubject, PSourceId, PProcedure, PResponderId}

\* a component without placeholder text, and one that has no '/' either
Plain(s) == \A p \in Placeholders : ~Contains(s, p)
Clean(s) == Plain(s) /\ ~Contains(s, <<Slash>>)

\* the last call parsed, with `parser`, the key that `constructor` built
\* without a target from components the round trip is stated for
ParsedOwn(parser, constructor) ==
    /\ keyCall # None
    /\ keyCall[1].op = parser
    /\ keyCall[1].built # None
    /\ keyCall[1].built[1].op = constructor
    /\ keyCall[1].built[1].target_id = None
    /\ Clean(keyCall[1].built[1].base_path)
    /\ Clean(keyCall[1].built[1].entity_id)
    /\ Clean(keyCall[1].built[1].third)
    /\ Plain(keyCall[1].built[1].fourth)

\* C2: parse_pubsub_key(construct_pubsub_key(a, b, c, d, None)) is
\* {base_path: a, entity_id: b, subject: c, source_id: d} when a, b, c hold no
\* '/' and no component holds placeholder text; d may be empty or hold '/'.
\* The same holds for construct_rpc_key and parse_rpc_key with procedure and
\* responder_id.
C2_KeyRoundTrip ==
    /\ ParsedOwn("parse_pubsub_key", "construct_pubsub_key") =>
          /\ keyResult[1].ok
          /\ keyResult[1].map = [base_path |-> keyCall[1].built[1].base_path,
                                 entity_id |-> keyCall[1].built[1].entity_id,
                                 subject   |-> keyCall[1].built[1].third,
                                 source_id |-> keyCall[1].built[1].fourth]
    /\ ParsedOwn("parse_rpc_key", "construct_rpc_key") =>
          /\ keyResult[1].ok
          /\ keyResult[1].map = [base_path    |-> keyCall[1].built[1].base_path,
                                 entity_id    |-> keyCall[1].built[1].entity_id,
                                 procedure    |-> keyCall[1].built[1].third,
                                 responder_id |-> keyCall[1].built[1].fourth]

\* a key with an empty base_path and the source_id "a/b" was parsed back
C2_SlashedSourceRoundTrip ==
    /\ ParsedOwn("parse_pubsub_key", "construct_pubsub_key")
    /\ keyCall[1].built[1].base_path = <<>>
    /\ keyCall[1].built[1].third = Raw
    /\ keyCall[1].built[1].fourth = <<"a", Slash, "b">>
    /\ keyResult[1].ok
    /\ keyResult[1].map.source_id = <<"a", Slash, "b">>

\* the last call was one of the two parsers that return a HashMap
ParserCalled ==
    /\ keyCall # None
    /\ keyCall[1].op \in {"parse_pubsub_key", "parse_rpc_key"}

\* the '/'-separated segments of the key the last parser call was given
Segments ==
    IF keyCall[1].segs # None THEN keyCall[1].segs[1] ELSE Split(keyCall[1].key)

\* the fourth segment the last parser call requires
Discriminator ==
    IF keyCall[1].op = "parse_pubsub_key" THEN PubsubToken ELSE RpcToken

\* C3: parse_pubsub_key returns an error exactly when the key has fewer than
\* six '/'-separated segments, or its second segment is not "@v0", or its
\* fourth is not "pubsub"; parse_rpc_key likewise with "@rpc"; the error is a
\* KeyParseError and never another kind.
C3_ParseErrorsExactly ==
    ParserCalled =>
        /\ ~keyResult[1].ok <=> \/ Len(Segments) < 6
                                \/ Segments[2] # VersionToken
                                \/ Segments[4] # Discriminator
        /\ ~keyResult[1].ok => keyResult[1].kind = "KeyParseError"

\* parse_rpc_key refused a key of six segments that is a pubsub key
C3_PubsubKeyRefusedByRpcParser ==
    /\ ParserCalled
    /\ keyCall[1].op = "parse_rpc_key"
    /\ keyCall[1].segs # None
    /\ Len(Segments) = 6
    /\ Segments[2] = VersionToken
    /\ Segments[4] = PubsubToken
    /\ ~keyResult[1].ok

\* the number of characters up to and including the fifth '/'
FivePrefix ==
    Len(Segments[1]) + Len(Segments[2]) + Len(Segments[3]) + Len(Segments[4])
    + Len(Segments[5]) + 5

\* C4: a successful parse returns exactly four components: segments 0, 2 and
\* 4 of the key and, as source_id or responder_id, segments 5 onwards
\* rejoined with '/', which is the rest of the key after its fifth '/'.
C4_FourComponents ==
    ParserCalled /\ keyResult[1].ok =>
        keyResult[1].map =
            IF keyCall[1].op = "parse_pubsub_key"
            THEN [base_path |-> Segments[1], entity_id |-> Segments[3],
                  subject   |-> Segments[5],
                  source_id |-> SubSeq(keyCall[1].key, FivePrefix + 1,
                                       Len(keyCall[1].key))]
            ELSE [base_path |-> Segments[1], entity_id |-> Segments[3],
                  procedure |-> Segments[5],
                  responder_id |-> SubSeq(keyCall[1].key, FivePrefix + 1,
                                          Len(keyCall[1].key))]

\* a key of more than six segments was parsed, its source_id holding a '/'
C4_LongSourceParsed ==
    /\ ParserCalled
    /\ keyCall[1].op = "parse_pubsub_key"
    /\ keyResult[1].ok
    /\ Len(Segments) > 6
    /\ Contains(keyResult[1].map.source_id, <<Slash>>)


\* the last call constructed a pubsub key
PubsubConstructed ==
    /\ keyCall # None
    /\ keyCall[1].op = "construct_pubsub_key"

\* the key the last construct_pubsub_key call would return without its target
WithoutTarget ==
    PubsubKey(keyCall[1].base_path, keyCall[1].entity_id, keyCall[1].third,
              keyCall[1].fourth, None)

\* the template with each placeholder replaced by its argument and by nothing else
Substituted(discriminator) ==
    keyCall[1].base_path \o <<Slash>> \o VersionToken \o <<Slash>>
    \o keyCall[1].entity_id \o <<Slash>> \o discriminator \o <<Slash>>
    \o keyCall[1].third \o <<Slash>> \o keyCall[1].fourth

\* C9: construct_pubsub_key with target_id = Some(t) returns the key it
\* returns with target_id = None followed by "/@target/" and t unchanged; with
\* None the key ends with the source_id and nothing is appended after it.
C9_TargetSuffix ==
    PubsubConstructed =>
        /\ keyCall[1].target_id # None =>
              keyResult[1].key = WithoutTarget \o <<Slash>> \o TargetToken
                                 \o <<Slash>> \o keyCall[1].target_id[1]
        /\ keyCall[1].target_id = None =>
              /\ keyResult[1].key = WithoutTarget
              /\ SubSeq(keyResult[1].key,
                        Len(keyResult[1].key) - Len(keyCall[1].fourth) + 1,
                        Len(keyResult[1].key)) = keyCall[1].fourth
        /\ (/\ keyCall[1].target_id # None
            /\ Clean(keyCall[1].base_path) /\ Clean(keyCall[1].entity_id)
            /\ Clean(keyCall[1].third) /\ Plain(keyCall[1].fourth))
              => (keyResult[1].key = Substituted(PubsubToken) \o <<Slash>>
                                     \o TargetToken \o <<Slash>>
                                     \o keyCall[1].target_id[1])

\* a key was built with a target that is itself placeholder text
C9_PlaceholderTargetAppended ==
    /\ PubsubConstructed
    /\ keyCall[1].target_id = Some(PBasePath)
    /\ keyCall[1].base_path = <<"a">>
    /\ keyCall[1].third = Raw
    /\ keyResult[1].key = <<"a">> \o <<Slash>> \o VersionToken \o <<Slash>>
                          \o keyCall[1].entity_id \o <<Slash>> \o PubsubToken
                          \o <<Slash>> \o Raw \o <<Slash>> \o keyCall[1].fourth
                          \o <<Slash>> \o TargetToken \o <<Slash>> \o PBasePath

\* C10 as the specification states it: both constructors are pure template
\* substitutions: the key is the template with each placeholder replaced by
\* its argument, also when an argument itself holds placeholder text.
C10_PureSubstitution ==
    /\ PubsubConstructed /\ keyCall[1].target_id = None
          => keyResult[1].key = Substituted(PubsubToken)
    /\ keyCall # None /\ keyCall[1].op = "construct_rpc_key"
          => keyResult[1].key = Substituted(RpcToken)

-----------------------------------------------------------------------------
(* Properties of the subject registry, checked under SpecRegistry.         *)

\* thread t holds the write guard and merges / holds a read guard and reads
Merging(t) == pc[t] = "locked" /\ IsLoad(call[t][1])
Reading(t) == pc[t] = "locked" /\ ~IsLoad(call[t][1])

\* the last step returned from a read / from load_subjects
ReadReturned == ret # None /\ ~IsLoad(ret[1].call)
LoadReturned == ret # None /\ IsLoad(ret[1].call)

\* C5: a read of the registry never overlaps a merge by load_subjects and no
\* two merges overlap; every read returns what the table held before or after
\* a merge, never a part of one, and get_all_subjects returns the whole table
\* of one instant.
C5_ReadsExcludeMerges ==
    /\ \A t \in Threads : \A u \in Threads \ {t} :
          Merging(t) => ~Merging(u) /\ ~Reading(u)
    /\ \A t \in Threads : Reading(t) => table = logged /\ base[t] = Some(logged)
    /\ ReadReturned => ret[1].val = ReadValue(ret[1].call, logged)

\* a merge has inserted a part of its mapping while another thread waits to read
C5_ReaderWaitsForMerge ==
    \E t \in Threads : \E u \in Threads \ {t} :
        /\ Merging(t)
        /\ table # logged
        /\ DOMAIN pending[t] # {}
        /\ pc[u] = "lock"
        /\ call[u][1].op = "get_all_subjects"

\* the mapping a file holds: its entries, read from the file's lines
FileKeys(path) ==
    {Files[path].content[i].key : i \in 1..Len(Files[path].content)}
FileHolds(path, k, v) ==
    \E i \in 1..Len(Files[path].content) :
        Files[path].content[i].key = k /\ Files[path].content[i].val = v

\* C6: after a successful load_subjects of a mapping M on a table T the table
\* is T overridden by M: every key of M maps to M's value, every other key of
\* T keeps its value, no other key appears; a subject once well known stays so.
C6_LoadOverrides ==
    /\ LoadReturned /\ ret[1].ok =>
          /\ DOMAIN table = DOMAIN ret[1].before \cup FileKeys(ret[1].call.path)
          /\ \A k \in FileKeys(ret[1].call.path) :
                FileHolds(ret[1].call.path, k, table[k])
          /\ \A k \in DOMAIN ret[1].before \ FileKeys(ret[1].call.path) :
                table[k] = ret[1].before[k]
    /\ once = "done" => known \subseteq DOMAIN table
    /\ (/\ ReadReturned
        /\ ret[1].call.op = "is_subject_well_known"
        /\ ret[1].was_known) => ret[1].val

\* overlay1 was loaded on the bundled table: "raw" is overridden, the other
\* bundled subject kept, "x" added
C6_OverlayLoaded ==
    /\ LoadReturned
    /\ ret[1].ok
    /\ ret[1].call.path = "overlay1"
    /\ ret[1].before = InitialSubjects(BundledYaml)
    /\ table[Raw] = "custom.Bytes"
    /\ table[LeverPositionPct] = "keelson.TimestampedFloat"
    /\ table[SubjectX] = "custom.X"

\* the file at path cannot be read or does not parse
InvalidSource(path) ==
    \/ ~Files[path].readable
    \/ \E i \in 1..Len(Files[path].content) : ~Files[path].content[i].ok

\* C7: when load_subjects fails, because the file cannot be read or does not
\* parse, it returns an error and the registry table is left as it was: no
\* entry of the rejected source is added.
C7_FailedLoadLeavesTable ==
    LoadReturned =>
        /\ InvalidSource(ret[1].call.path) <=> ~ret[1].ok
        /\ ~ret[1].ok => /\ table = ret[1].before
                         /\ ret[1].kind \in {"IoError", "YamlError"}

\* the file with a malformed last line was rejected and the table, already
\* holding an overlay, kept its entries
C7_BrokenFileRejected ==
    /\ LoadReturned
    /\ ~ret[1].ok
    /\ ret[1].call.path = "broken"
    /\ ret[1].kind = "YamlError"
    /\ once = "done"
    /\ SubjectX \in DOMAIN table
    /\ table = ret[1].before


-----------------------------------------------------------------------------
(* Further properties of the subjects registry, checked under SpecRegistry *)
(* and, for a build whose bundled source does not parse, under             *)
(* SpecBrokenBundle.                                                       *)

\* the entries of the bundled source
BundledEntries == load_bundled_subjects(bundled).map

\* C16: the registry is initialised lazily, on the first access, from the
\* bundled default source, and at most once, also when the first accesses are
\* concurrent (the cell goes from uninitialised to running to done and never
\* back, and one thread at most runs the initializer); every read and every
\* load_subjects merge acts on a table that already holds the bundled
\* entries; and a later access never runs the initialisation again nor
\* resets an entry: an entry changes only when a load overwrites it.
C16_RegistryInitialisedOnce ==
    /\ [](once = "uninit" =>
              table = EmptyMap /\ \A t \in Threads : pc[t] \in {"idle", "deref"})
    /\ [](Cardinality({t \in Threads : pc[t] = "init"}) <= 1)
    /\ [](\A t \in Threads :
              pc[t] \in {"lock", "locked"} =>
                  /\ once = "done"
                  /\ DOMAIN BundledEntries \subseteq DOMAIN table
                  /\ pc[t] = "locked" =>
                         DOMAIN BundledEntries \subseteq DOMAIN base[t][1])
    /\ [][once' # once =>
             /\ <<once, once'>> \in {<<"uninit", "running">>, <<"running", "done">>}
             /\ once' = "done" => table' = BundledEntries]_vars
    /\ [][once = "done" =>
             \A k \in DOMAIN table :
                 /\ k \in DOMAIN table'
                 /\ table'[k] # table[k] =>
                        \E t \in Threads : /\ rwWriter = Some(t)
                                           /\ k \in DOMAIN pending[t]
                                           /\ table'[k] = pending[t][k]]_vars

\* the first accesses are concurrent: one thread runs the initializer while
\* the other, a load_subjects with its entries parsed, waits at the dereference
C16_ConcurrentFirstAccess ==
    /\ once = "running"
    /\ table = EmptyMap
    /\ \E t, u \in Threads : /\ pc[t] = "init"
                             /\ pc[u] = "deref"
                             /\ IsLoad(call[u][1])
                             /\ Raw \in DOMAIN pending[u]

\* the subjects of the bundled source and of the files, and one of no source
AllSubjects == {Raw, LeverPositionPct, SubjectX, SubjectY, <<"z">>}

\* C20: in any state of the registry and for any subject s the three reads
\* agree: is_subject_well_known(s) is true exactly when s is a key of the
\* table; get_subject_schema(s) is Some(type) with the type the table maps s
\* to exactly for those keys and None otherwise; get_all_subjects is exactly
\* the table's pairs; every value a read returns is the one the table gives;
\* and a subject that was never loaded is never reported as well-known.
C20_ReadsAgree ==
    /\ \A s \in AllSubjects :
          /\ is_subject_well_known(table, s) <=> s \in DOMAIN table
          /\ is_subject_well_known(table, s) <=> get_subject_schema(table, s) # None
          /\ is_subject_well_known(table, s) <=> s \in DOMAIN get_all_subjects(table)
          /\ s \in DOMAIN table =>
                 /\ get_subject_schema(table, s) = Some(table[s])
                 /\ get_all_subjects(table)[s] = table[s]
    /\ DOMAIN get_all_subjects(table) = DOMAIN table
    /\ ReadReturned =>
          ret[1].val =
             CASE ret[1].call.op = "is_subject_well_known" ->
                      ret[1].call.subject \in DOMAIN table
               [] ret[1].call.op = "get_subject_schema" ->
                      IF ret[1].call.subject \in DOMAIN table
                      THEN Some(table[ret[1].call.subject]) ELSE None
               [] ret[1].call.op = "get_all_subjects" -> table
    /\ known \subseteq DOMAIN table
    /\ <<"z">> \notin DOMAIN table

\* get_subject_schema returned None for the subject "x", which no load had
\* brought yet, while the bundled subjects were in the table
C20_UnloadedSubjectHasNoSchema ==
    /\ ReadReturned
    /\ ret[1].call.op = "get_subject_schema"
    /\ ret[1].call.subject = SubjectX
    /\ ret[1].val = None
    /\ ~is_subject_well_known(table, SubjectX)
    /\ is_subject_well_known(table, Raw)

\* C17: no error is swallowed silently; in particular, when the bundled
\* default subjects source fails to parse, the call whose access ran the
\* initializer ends there with an error, instead of the failure being
\* absorbed and the call going on with a registry that starts empty.
C17_BundledFailureReported ==
    [][\A t \in Threads :
          (pc[t] = "init" /\ pc'[t] # "init" /\ ~load_bundled_subjects(bundled).ok)
              => /\ ret' # None
                 /\ ret'[1].thread = t
                 /\ ~ret'[1].ok]_vars

-----------------------------------------------------------------------------
(* Further properties of the envelope operations, checked under            *)
(* SpecEnvelope.                                                           *)

\* x <= y for signed numbers
BigLe(x, y) ==
    IF x.neg /\ ~y.neg THEN TRUE
    ELSE IF ~x.neg /\ y.neg THEN x.mag = <<>> /\ y.mag = <<>>
    ELSE IF x.neg THEN NatLe(y.mag, x.mag)
    ELSE NatLe(x.mag, y.mag)

\* the last uncover succeeded on the bytes enclose(p, None) made, and the
\* clock it read was not behind the clock enclose read
UncoveredStamped ==
    /\ uncResult # None
    /\ uncResult[1].origin.by = "enclose"
    /\ uncResult[1].origin.now # None
    /\ BigLe(uncResult[1].origin.now[1], uncResult[1].now)
    /\ uncResult[1].res.kind = "Ok"

\* C12: when enclose(p, None) runs and uncover is afterwards applied to its
\* output in the same process, and the clock read by both never goes
\* backwards, the received_at that uncover returns is not smaller than the
\* enclosed_at it returns.
C12_ReceivedNotBeforeEnclosed ==
    UncoveredStamped =>
        BigLe(uncResult[1].res.enclosed_at, uncResult[1].res.received_at)

\* the same while the clock uncover reads is within the nanoseconds an i64
\* holds (until the year 2262)
C12_ReceivedNotBeforeEnclosedInRange ==
    (UncoveredStamped /\ InI64(uncResult[1].now)) =>
        BigLe(uncResult[1].res.enclosed_at, uncResult[1].res.received_at)

-----------------------------------------------------------------------------
(* Properties of the reflection functions, checked under SpecReflection.   *)

\* the full names of the messages a descriptor set defines
DefinedIn(set) ==
    {m.full_name : m \in UNION {set[i].message_type : i \in DOMAIN set}}

\* the merged pool: the union of the payloads and the interfaces sets
MergedNames == DefinedIn(PAYLOADS_DESCRIPTOR) \cup DefinedIn(INTERFACES_DESCRIPTOR)

\* a call of get_message_descriptor_from_type_name has just returned
Resolved == rret # None /\ rret[1].call.payload = None

\* C13: get_message_descriptor_from_type_name(n) succeeds if and only if a
\* message with the fully-qualified name n is defined in the merged pool (the
\* union of the payloads and the interfaces descriptor sets), and then the
\* descriptor it returns has the full name n; for every other n it returns a
\* ReflectionError whose message contains n.
C13_ResolvesExactlyMergedNames ==
    Resolved =>
        IF rret[1].call.type_name \in MergedNames
        THEN /\ rret[1].res.ok
             /\ rret[1].res.descriptor.full_name = rret[1].call.type_name
        ELSE /\ ~rret[1].res.ok
             /\ rret[1].res.kind = "ReflectionError"
             /\ Contains(rret[1].res.message, <<rret[1].call.type_name>>)

\* a type of the interfaces set was resolved from the pool of all four files
C13_InterfaceTypeResolved ==
    /\ Resolved
    /\ rret[1].call.type_name = "ConfigurableSuccessResponse"
    /\ rret[1].res.ok
    /\ rret[1].res.descriptor.full_name = "ConfigurableSuccessResponse"
    /\ rret[1].seen = PAYLOADS_DESCRIPTOR \o INTERFACES_DESCRIPTOR

\* a call of decode_payload_from_type_name has just returned
Decoded == rret # None /\ rret[1].call.payload # None

\* C14: decode_payload_from_type_name(payload, n) resolves the type before it
\* touches the payload: for an n that is not in the merged pool it returns
\* the unknown-type ReflectionError whatever the payload, valid or not; for
\* an n in the pool it returns either a dynamic message whose descriptor is n
\* or a protobuf decode error, and nothing else.
C14_DecodeResolvesFirst ==
    Decoded =>
        IF rret[1].call.type_name \notin MergedNames
        THEN /\ rret[1].res.kind = "ReflectionError"
             /\ rret[1].res.message =
                    <<"Unknown message type: ", rret[1].call.type_name>>
        ELSE \/ /\ rret[1].res.kind = "DynamicMessage"
                /\ rret[1].res.descriptor.full_name = rret[1].call.type_name
             \/ rret[1].res.kind = "ProtobufDecodeError"

\* a payload that no type decodes was given with an unknown type name, and the
\* unknown type was reported
C14_UnknownTypeBeforeBadPayload ==
    /\ Decoded
    /\ rret[1].call.type_name = "unknown.Type"
    /\ rret[1].call.payload = Some(<<128>>)
    /\ rret[1].res.kind = "ReflectionError"

\* the pool with every file of both sets
MergedPool == PAYLOADS_DESCRIPTOR \o INTERFACES_DESCRIPTOR

\* what a call returns when it is made alone on the merged pool
OutcomeOf(c) ==
    IF c.payload = None
    THEN get_message_descriptor_from_type_name(MergedPool, c.type_name)
    ELSE decode_payload_from_type_name(MergedPool, c.payload[1], c.type_name)

\* C15: the merged descriptor pool is built exactly once per process, also
\* when several threads make the first call concurrently (the cell goes from
\* uninitialised to running to done and never back); no caller observes an
\* empty or partly merged pool; once initialised the pool never changes; and
\* so every resolve or decode call returns what its arguments alone
\* determine, the same for any two calls with the same type name whatever
\* the interleaving.
C15_PoolBuiltOnce ==
    /\ [](rret # None => /\ rret[1].seen = MergedPool
                         /\ rret[1].res = OutcomeOf(rret[1].call))
    /\ [](\A t \in Threads : rpc[t] \in {"lock", "locked"} => poolOnce = "done")
    /\ [](Cardinality({t \in Threads : rpc[t] = "init"}) <= 1)
    /\ [][poolOnce' # poolOnce =>
             <<poolOnce, poolOnce'>> \in {<<"uninit", "running">>,
                                         <<"running", "done">>}]_vars
    /\ [][poolOnce = "done" => descriptorPool' = descriptorPool]_vars

\* both threads made their first call before the pool existed: one runs the
\* initializer and has merged two files, the other waits at the dereference
C15_ConcurrentFirstCalls ==
    /\ poolOnce = "running"
    /\ Len(descriptorPool) = 2
    /\ \E t, u \in Threads : rpc[t] = "init" /\ rpc[u] = "deref"

\* enclose(p, Some(n)) has put an envelope in flight
StampedInFlight ==
    /\ wire # None
    /\ wireOrigin[1].by = "enclose"
    /\ wireOrigin[1].enclosed_at # None

\* the Timestamp that envelope carries on the wire
WireTimestamp == DecodeEnvelope(wire[1]).msg.enclosed_at[1]

\* C19: for every i64 n, nanos_to_timestamp(n) yields seconds = n /
\* 1_000_000_000 truncated toward zero and nanos = n % 1_000_000_000 with the
\* sign of n: seconds * 10^9 + nanos is n exactly, neither has the sign
\* opposite to n, and -999_999_999 <= nanos <= 999_999_999, so the cast to
\* i32 truncates nothing; a negative n that is not a whole number of seconds
\* gives negative nanos on the wire.
C19_TruncatingSplit ==
    StampedInFlight =>
        LET n == wireOrigin[1].enclosed_at[1]
            ts == WireTimestamp
        IN  /\ BigAdd(Big(ts.seconds.neg, ShiftLimbs(ts.seconds.mag, 3)),
                      BigOfInt(ts.nanos)) = n
            /\ -999999999 <= ts.nanos /\ ts.nanos <= 999999999
            /\ n.neg => ts.nanos <= 0 /\ BigLe(ts.seconds, Zero)
            /\ ~n.neg => ts.nanos >= 0 /\ BigLe(Zero, ts.seconds)
            /\ (n.neg /\ LowLimbs(n.mag, 3) # <<>>) => ts.nanos < 0

\* the smallest i64 was split into -9223372036 s and -854775808 ns
C19_SmallestSplit ==
    /\ StampedInFlight
    /\ wireOrigin[1].enclosed_at[1] = I64Min
    /\ WireTimestamp.seconds = Big(TRUE, <<36, 372, 223, 9>>)
    /\ WireTimestamp.nanos = -854775808

-----------------------------------------------------------------------------
(* Further properties of the key operations, checked under SpecKeys.       *)

\* the result of the last construct_pubsub_key call, had the registry been
\* `subjects` when it ran
KeyUnder(subjects) ==
    construct_pubsub_key(keyCall[1].base_path, keyCall[1].entity_id,
                         keyCall[1].third, keyCall[1].fourth,
                         keyCall[1].target_id, subjects).key

\* C11: the well-known-subject check of construct_pubsub_key is advisory:
\* the key is the same whether the registry holds the subject or not (here:
\* under the empty registry and under one that holds the subject), the call
\* returns a key and no error also when it warns, and the registry table
\* after the call is the table the call consulted.
C11_WellKnownCheckAdvisory ==
    PubsubConstructed =>
        /\ KeyUnder(EmptyMap) = keyResult[1].key
        /\ KeyUnder(Insert(table, keyCall[1].third, "keelson.Any")) = keyResult[1].key
        /\ keyResult[1].warned <=> keyCall[1].third \notin DOMAIN keyCall[1].registry
        /\ Len(keyResult[1].key) >= Len(VersionToken) + Len(PubsubToken) + 5
        /\ once = "done"
        /\ table = keyCall[1].registry

\* a key was built for the subject "a", which the registry does not hold:
\* the warning was logged and the key returned all the same
C11_UnknownSubjectKeyBuilt ==
    /\ PubsubConstructed
    /\ keyCall[1].third = <<"a">>
    /\ keyCall[1].base_path = <<"a">>
    /\ keyCall[1].target_id = None
    /\ keyResult[1].warned
    /\ keyResult[1].key = Substituted(PubsubToken)
    /\ table = InitialSubjects(BundledYaml)

\* one of the three parsers has just been called and returned an error
ParserFailed ==
    /\ keyCall # None
    /\ keyCall[1].op \in Parsers
    /\ ~keyResult[1].ok

\* the message of the error: format!("Key '{}' <text>", key) or
\* format!("Key '{}' <text> '{}'", key, format), character by character but
\* for the fixed text
Message ==
    <<"K", "e", "y", " ", "'">> \o keyResult[1].key \o <<"'", " ", keyResult[1].text>>
    \o (IF keyResult[1].format = None THEN <<>>
        ELSE <<" ", "'">> \o keyResult[1].format[1] \o <<"'">>)

\* the key format of the parser that was called
ExpectedFormat ==
    IF keyCall[1].op = "parse_rpc_key"
    THEN KEELSON_REQ_REP_KEY_FORMAT ELSE KEELSON_PUB_SUB_KEY_FORMAT

\* C18 as the specification states it: every KeyParseError that
\* parse_pubsub_key, parse_rpc_key or get_subject_from_pubsub_key returns, for
\* any violation (too few segments, wrong version token, wrong
\* discriminator), carries a message naming both the offending key and the
\* expected key format.
C18_ErrorNamesKeyAndFormat ==
    ParserFailed =>
        /\ keyResult[1].kind = "KeyParseError"
        /\ Contains(Message, keyCall[1].key)
        /\ Contains(Message, ExpectedFormat)

\* C18, amended: every such KeyParseError carries a message naming the
\* offending key; for a wrong version token or discriminator the message also
\* names the expected key format, while for a key of fewer than six segments
\* it says that the key does not have enough parts (at least 6 expected)
\* and does not name the format.
C18_ErrorNamesKey ==
    ParserFailed =>
        /\ keyResult[1].kind = "KeyParseError"
        /\ Contains(Message, keyCall[1].key)
        /\ IF Len(Split(keyCall[1].key)) < 6
           THEN /\ keyResult[1].text = TooFewParts
                /\ ~Contains(Message, ExpectedFormat)
           ELSE /\ keyResult[1].text = FormatMismatch
                /\ Contains(Message, ExpectedFormat)

\* get_subject_from_pubsub_key refused a key of three segments with a message
\* that names the key and not the format
C18_ShortKeyNamedWithoutFormat ==
    /\ ParserFailed
    /\ keyCall[1].op = "get_subject_from_pubsub_key"
    /\ keyCall[1].key = <<"a", "/", "@", "v", "0", "/", "a">>
    /\ Contains(Message, keyCall[1].key)
    /\ ~Contains(Message, ExpectedFormat)

-----------------------------------------------------------------------------
(* Properties of get_file_descriptor_set_from_type_name, checked under     *)
(* SpecReflection.                                                         *)

\* the pool DESCRIPTOR_POOL's initializer merges from the payloads set and an
\* interfaces set
MergedWith(interfaces) == AddFiles(<<>>, PAYLOADS_DESCRIPTOR \o interfaces).pool

\* C21: get_file_descriptor_set_from_type_name(n) returns "payloads" when n
\* is defined in the payloads descriptor set (also when it is defined in both
\* sets: the payloads set is checked first), "interfaces" when n is defined
\* only in the interfaces set, and a ReflectionError naming n when it is
\* defined in neither; it succeeds for exactly the type names for which
\* get_message_descriptor_from_type_name succeeds on the merged pool.
C21_SetOfTypeName ==
    located # None =>
        LET c == located[1]
        IN  /\ c.res =
                  IF c.type_name \in DefinedIn(PAYLOADS_DESCRIPTOR)
                  THEN [ok |-> TRUE, set |-> "payloads"]
                  ELSE IF c.type_name \in DefinedIn(c.interfaces)
                  THEN [ok |-> TRUE, set |-> "interfaces"]
                  ELSE [ok |-> FALSE, kind |-> "ReflectionError",
                        message |-> <<"Type '", c.type_name,
                                      "' not found in any descriptor set">>]
            /\ c.res.ok =
                  get_message_descriptor_from_type_name(
                      MergedWith(c.interfaces), c.type_name).ok

\* a type defined in both sets was looked up, and the payloads set was named
C21_TypeOfBothSets ==
    /\ located # None
    /\ located[1].type_name \in DefinedIn(PAYLOADS_DESCRIPTOR)
                                 \cap DefinedIn(located[1].interfaces)
    /\ located[1].res = [ok |-> TRUE, set |-> "payloads"]

-----------------------------------------------------------------------------
(* Properties of the parsers of lib.rs, checked under SpecCrateRoot.       *)

\* a parser of the crate root has just returned
LibParserCalled ==
    /\ keyCall # None
    /\ keyCall[1].op \in LibParsers

\* segment[i] of the key (counted from 0) is there and is `token`
SegmentIs(i, token) ==
    /\ Len(keyCall[1].segs[1]) > i
    /\ keyCall[1].segs[1][i + 1] = token

\* C22: the parse_pubsub_key of the crate root (lib.rs, returning an Option)
\* returns None for every key that has fewer than 6 segments or whose
\* segment[1] is not "@v0" or whose segment[3] is not "pubsub", and the
\* parse_rpc_key of the crate root returns None for every key whose
\* segment[1] is not "@v0" or whose segment[3] is not "@rpc"; in particular a
\* key of the RPC form is never parsed as a pub/sub key.
C22_CrateRootRejects ==
    LibParserCalled =>
        IF keyCall[1].op = "lib::parse_rpc_key"
        THEN (~SegmentIs(1, VersionToken) \/ ~SegmentIs(3, RpcToken))
                 => keyResult[1] = None
        ELSE (\/ Len(keyCall[1].segs[1]) < 6
              \/ ~SegmentIs(1, VersionToken)
              \/ ~SegmentIs(3, PubsubToken))
                 => keyResult[1] = None

\* what the parsers of the crate root do check: a key of fewer than six
\* segments is refused, and every other key is taken apart by position
C22_CrateRootChecksLengthOnly ==
    LibParserCalled => (keyResult[1] = None <=> Len(keyCall[1].segs[1]) < 6)

-----------------------------------------------------------------------------
(* Properties of the two locks, checked under SpecConcurrentFair.          *)

\* thread t holds a guard of SUBJECTS / of DESCRIPTOR_POOL
HoldsSubjects(t) == rwWriter = Some(t) \/ t \in rwReaders
HoldsPool(t) == t \in poolReaders

\* a thread starts a call that does not return at once
Calling ==
    \E t \in Threads :
        /\ pc[t] = "idle" /\ rpc[t] = "idle"
        /\ pc'[t] # "idle" \/ rpc'[t] # "idle"

\* every thread is in no call, and no lock is held
AllReturned ==
    /\ \A t \in Threads : Idle(t)
    /\ rwWriter = None
    /\ rwReaders = {}
    /\ poolReaders = {}

\* C23: any finite set of threads concurrently calling the registry reads,
\* load_subjects, construct_pubsub_key and the reflection lookups always runs
\* to completion under a fair lock (once the threads start no further call,
\* every call in progress returns): each operation holds at most one of the
\* two locks at a time, never acquires a lock while it holds one, and has
\* released it when it returns, on the success and on the error path alike,
\* so no interleaving deadlocks.
C23_CallsRunToCompletion ==
    /\ [](\A t \in Threads :
             /\ ~(HoldsSubjects(t) /\ HoldsPool(t))
             /\ Idle(t) => ~HoldsSubjects(t) /\ ~HoldsPool(t))
    /\ [][\A t \in Threads :
             Acquire(t) \/ PoolAcquire(t) => ~HoldsSubjects(t) /\ ~HoldsPool(t)]_vars
    /\ (<>[][~Calling]_vars => <>[]AllReturned)

\* a load waits for the write lock of SUBJECTS while another thread holds its
\* read lock
C23_WriterWaitsForReader ==
    \E t \in Threads, u \in Threads :
        /\ pc[t] = "lock"
        /\ IsLoad(call[t][1])
        /\ u \in rwReaders

-----------------------------------------------------------------------------
(* Properties of keys with a target, checked under SpecKeys.               *)

\* parse_pubsub_key has just parsed a key that construct_pubsub_key built with
\* a target from a base_path, an entity_id and a subject without '/'
ParsedTargeted ==
    /\ keyCall # None
    /\ keyCall[1].op = "parse_pubsub_key"
    /\ keyCall[1].built # None
    /\ keyCall[1].built[1].op = "construct_pubsub_key"
    /\ keyCall[1].built[1].target_id # None
    /\ ~Contains(keyCall[1].built[1].base_path, <<Slash>>)
    /\ ~Contains(keyCall[1].built[1].entity_id, <<Slash>>)
    /\ ~Contains(keyCall[1].built[1].third, <<Slash>>)

\* the source_id d with "/@target/" and the target t after it
SourceWithTarget ==
    keyCall[1].built[1].fourth \o <<Slash>> \o TargetToken \o <<Slash>>
    \o keyCall[1].built[1].target_id[1]

\* what parse_pubsub_key returns for a key with a target: the target is part
\* of the source_id, as in the key built from that source_id without a target
TargetFolded ==
    /\ keyResult[1].ok
    /\ DOMAIN keyResult[1].map = {"base_path", "entity_id", "subject", "source_id"}
    /\ keyResult[1].map.source_id = SourceWithTarget
    /\ keyResult[1] =
          parse_pubsub_key(PubsubKey(keyCall[1].built[1].base_path,
                                     keyCall[1].built[1].entity_id,
                                     keyCall[1].built[1].third,
                                     SourceWithTarget, None))

\* C24: for a key built by construct_pubsub_key(a, b, c, d, Some(t)) with a,
\* b and c free of '/', parse_pubsub_key succeeds and returns source_id =
\* d + "/@target/" + t and no separate target component: the result is the
\* one of parsing the key built from the source_id d + "/@target/" + t with
\* no target, so the parser never tells a target suffix from trailing
\* sub-segments of the source_id.
C24_TargetFoldedIntoSource == ParsedTargeted => TargetFolded

\* the same with a, b and c free of placeholder text as well: then the key is
\* the template with its placeholders substituted, and the statement holds
C24_TargetFoldedIntoPlainSource ==
    (/\ ParsedTargeted
     /\ Plain(keyCall[1].built[1].base_path)
     /\ Plain(keyCall[1].built[1].entity_id)
     /\ Plain(keyCall[1].built[1].third)) => TargetFolded

-----------------------------------------------------------------------------
(* Properties of the two kinds of key, checked under SpecKeys.             *)

\* a parser has just been called on a key that `constructor` built
ParsedBuilt(constructor) ==
    /\ keyCall # None
    /\ keyCall[1].op \in Parsers
    /\ keyCall[1].built # None
    /\ keyCall[1].built[1].op = constructor

\* no key is accepted by both parsers
NoKeyOfBothKinds ==
    (keyCall # None /\ keyCall[1].op \in Parsers) =>
        ~(parse_pubsub_key(keyCall[1].key).ok /\ parse_rpc_key(keyCall[1].key).ok)

\* C25 as the specification states it: no key string is accepted by both
\* parse_pubsub_key and parse_rpc_key of keys.rs; every key produced by
\* construct_rpc_key is rejected by parse_pubsub_key and by
\* get_subject_from_pubsub_key, and every key produced by construct_pubsub_key
\* with a base_path and an entity_id free of '/' is rejected by parse_rpc_key.
C25_KindsDisjoint ==
    /\ NoKeyOfBothKinds
    /\ (ParsedBuilt("construct_rpc_key") /\ keyCall[1].op # "parse_rpc_key")
          => ~keyResult[1].ok
    /\ (/\ ParsedBuilt("construct_pubsub_key")
        /\ keyCall[1].op = "parse_rpc_key"
        /\ ~Contains(keyCall[1].built[1].base_path, <<Slash>>)
        /\ ~Contains(keyCall[1].built[1].entity_id, <<Slash>>))
          => ~keyResult[1].ok

\* the base_path and the entity_id the key was built from hold neither '/' nor
\* placeholder text
CleanPrefix ==
    Clean(keyCall[1].built[1].base_path) /\ Clean(keyCall[1].built[1].entity_id)

\* C25, amended: no key string is accepted by both parsers; a key that
\* construct_rpc_key or construct_pubsub_key built from a base_path and an
\* entity_id that hold neither '/' nor placeholder text is rejected by the
\* parsers of the other kind.
C25_KindsDisjointForCleanPrefix ==
    /\ NoKeyOfBothKinds
    /\ (/\ ParsedBuilt("construct_rpc_key")
        /\ keyCall[1].op # "parse_rpc_key"
        /\ CleanPrefix)
          => ~keyResult[1].ok
    /\ (/\ ParsedBuilt("construct_pubsub_key")
        /\ keyCall[1].op = "parse_rpc_key"
        /\ CleanPrefix)
          => ~keyResult[1].ok

\* get_subject_from_pubsub_key refused the key construct_rpc_key built from
\* the procedure "a/pubsub" and a base_path and an entity_id "a"
C25_RpcKeyRefused ==
    /\ ParsedBuilt("construct_rpc_key")
    /\ keyCall[1].op = "get_subject_from_pubsub_key"
    /\ keyCall[1].built[1].base_path = <<"a">>
    /\ keyCall[1].built[1].entity_id = <<"a">>
    /\ keyCall[1].built[1].third = <<"a", Slash>> \o PubsubToken
    /\ ~keyResult[1].ok

-----------------------------------------------------------------------------
(* Properties of the recomposition of a received timestamp, checked under  *)
(* SpecEnvelope.                                                           *)

\* uncover was called, the clock not before the epoch, on a well-formed
\* envelope that carries a timestamp
UncoveredWithTimestamp ==
    /\ uncResult # None
    /\ ~BeforeEpoch(uncResult[1].now)
    /\ DecodeEnvelope(uncResult[1].message).ok
    /\ DecodeEnvelope(uncResult[1].message).msg.enclosed_at # None

\* the Timestamp of the envelope uncover was given
GivenTimestamp == DecodeEnvelope(uncResult[1].message).msg.enclosed_at[1]

\* seconds * 1_000_000_000 + nanos as a mathematical integer
ExactNanos(ts) ==
    BigAdd(Big(ts.seconds.neg, ShiftLimbs(ts.seconds.mag, 3)), BigOfInt(ts.nanos))

\* C26: for every well-formed wire Envelope with a present timestamp
\* {seconds: s (int64), nanos: n (int32)}, envelopes that enclose did not
\* produce included, uncover returns enclosed_at equal to the mathematical
\* value s * 1_000_000_000 + n; the recomposition in timestamp_to_nanos never
\* overflows i64 (it neither wraps nor aborts) for any s and n the wire
\* format can carry.
C26_RecomposedExactly ==
    UncoveredWithTimestamp =>
        /\ uncResult[1].res.kind = "Ok"
        /\ uncResult[1].res.enclosed_at = ExactNanos(GivenTimestamp)

\* what holds: when s * 1_000_000_000 + n and the product in it are in the
\* range of i64, uncover returns that value; otherwise it panics in a build
\* with overflow checks and returns the wrapped value in one without
C26_RecomposedInRange ==
    UncoveredWithTimestamp =>
        LET ts == GivenTimestamp
            fits == /\ InI64(Big(ts.seconds.neg, ShiftLimbs(ts.seconds.mag, 3)))
                    /\ InI64(ExactNanos(ts))
        IN  IF fits
            THEN /\ uncResult[1].res.kind = "Ok"
                 /\ uncResult[1].res.enclosed_at = ExactNanos(ts)
            ELSE IF overflowChecks THEN uncResult[1].res.kind = "Panic"
            ELSE /\ uncResult[1].res.kind = "Ok"
                 /\ uncResult[1].res.enclosed_at # ExactNanos(ts)

-----------------------------------------------------------------------------
(* Properties of concurrent loads, checked under SpecRegistry.             *)

\* the mapping load_subjects reads from a file, and a table overridden by it
LoadedMap(path) == load_subjects_from_str(read_to_string(path).content).map
Override(subjects, new_subjects) ==
    [k \in DOMAIN subjects \cup DOMAIN new_subjects |->
        IF k \in DOMAIN new_subjects THEN new_subjects[k] ELSE subjects[k]]

\* C27: concurrent load_subjects calls are linearizable: the table is changed
\* by the load that holds the write lock and by no other; a load starts from
\* the table the loads that held the lock before it left (`logged`) and
\* leaves that table overridden by its whole mapping, so that after any set
\* of loads the table is the result of the successful loads applied one after
\* another in the order in which they acquired the write lock; for a subject
\* that two concurrent loads define the final value is the one of the load
\* that merged last, and no entry of a completed load is lost unless a later
\* load overwrites that same key.
C27_LoadsLinearizable ==
    /\ []((\A t \in Threads : ~Merging(t)) => table = logged)
    /\ [](\A t \in Threads : Merging(t) =>
              /\ rwWriter = Some(t)
              /\ base[t] = Some(logged)
              /\ \A k \in DOMAIN table :
                    IF k \in DOMAIN logged /\ table[k] = logged[k] THEN TRUE
                    ELSE FileHolds(call[t][1].path, k, table[k]))
    /\ [](LoadReturned /\ ret[1].ok =>
              /\ table = Override(ret[1].before, LoadedMap(ret[1].call.path))
              /\ logged = table)
    /\ [][\A k \in DOMAIN table :
             /\ k \in DOMAIN table'
             /\ table'[k] # table[k] =>
                   \E t \in Threads :
                       /\ Merging(t)
                       /\ FileHolds(call[t][1].path, k, table'[k])]_vars

\* overlay2 was merged after overlay1 while another load waited for the lock:
\* "x" has the value of overlay2, and "raw" still has the one of overlay1
C27_LaterLoadWins ==
    /\ LoadReturned
    /\ ret[1].ok
    /\ ret[1].call.path = "overlay2"
    /\ SubjectX \in DOMAIN ret[1].before
    /\ ret[1].before[SubjectX] = "custom.X"
    /\ table[SubjectX] = "other.X"
    /\ table[Raw] = "custom.Bytes"
    /\ \E u \in Threads : pc[u] = "lock" /\ IsLoad(call[u][1])

=============================================================================
